---- MODULE Spec2Model ----
(***************************************************************************)
(* Model of the sentinel-backend routing core                              *)
(* (src/sentinel-backend/src/services/routingService.js) and of the        *)
(* RoutingController that calls it (controllers/reportController.js).      *)
(*                                                                         *)
(* Units.  Coordinates are integers in millidegrees.  Distances are        *)
(* integers in metres (the code's kilometres x 1000).  trafficLevel is in  *)
(* tenths, accidentRisk in fiftieths (0.1 = 5, 1 = 50: the enrichment      *)
(* divides a severity sum by 50).  Edge weights and g/f scores are in      *)
(* 1/WeightScale metres, so that the three multipliers of                  *)
(* calculateEdgeWeight stay exact.  The clock is in units of 150 s.        *)
(***************************************************************************)
EXTENDS Integers, Sequences, FiniteSets, TLC

(***************************************************************************)
(* The clock                                                               *)
(***************************************************************************)
\* Date.now(), in units of 150 s
VARIABLE now

(***************************************************************************)
(* Bounds of the model                                                     *)
(***************************************************************************)
\* nodes of a hand-built graph handed to the search
MaxNodes == 3
\* outbound edges, in total, of a hand-built graph
MaxEdges == 3

(***************************************************************************)
(* Numbers                                                                 *)
(***************************************************************************)
Abs(x) == IF x < 0 THEN -x ELSE x

Min2(a, b) == IF a <= b THEN a ELSE b

Max2(a, b) == IF a >= b THEN a ELSE b

\* Math.round of the rational n / d (d > 0, n >= 0): half rounds up
RoundDiv(n, d) == (2 * n + d) \div (2 * d)

\* one Newton step towards the square root of n from x > 0
NewtonStep(n, x) == (x + n \div x) \div 2

\* Math.sqrt, to the metre below: Newton's steps from a power of ten above
\* the root, which descend to the floor of the root
ISqrt(n) ==
  LET x0 == IF n < 100 THEN 10 ELSE IF n < 10000 THEN 100
            ELSE IF n < 1000000 THEN 1000 ELSE IF n < 100000000 THEN 10000
            ELSE 46340
      x1 == NewtonStep(n, x0)
      x2 == NewtonStep(n, x1)
      x3 == NewtonStep(n, x2)
      x4 == NewtonStep(n, x3)
      x5 == NewtonStep(n, x4)
      x6 == NewtonStep(n, x5)
  IN IF n = 0 THEN 0
     ELSE IF x6 * x6 > n THEN x6 - 1
     ELSE IF (x6 + 1) * (x6 + 1) <= n THEN x6 + 1
     ELSE x6

\* JavaScript's Infinity: a value no finite score equals
Infinity == -1

\* a + b in JavaScript numbers with Infinity
Plus(a, b) == IF a = Infinity \/ b = Infinity THEN Infinity ELSE a + b

\* a < b in JavaScript numbers with Infinity
LessThan(a, b) == a # Infinity /\ (b = Infinity \/ a < b)

\* map.get(id) ?? Infinity: only an absent entry gives Infinity
GetOrInfinity_Nullish(map, id) ==
  IF id \in DOMAIN map THEN map[id] ELSE Infinity

\* map.get(id) || Infinity: an absent entry AND a stored 0 both give Infinity
GetOrInfinity(map, id) ==
  IF id \in DOMAIN map /\ map[id] # 0 THEN map[id] ELSE Infinity

(***************************************************************************)
(* Geodesy (haversineDistance, toRadians)                                  *)
(***************************************************************************)
\* R * toRadians(d) for d in millidegrees, in metres: 6371 km * pi / 180
\* = 111.195 m per millidegree
ArcMetres(d) == (111195 * d) \div 1000

\* Math.cos(toRadians(lat)) x 10000.  Within 5 degrees of a pole the
\* small-angle form cos(lat) = (90 - |lat|) * pi / 180, elsewhere
\* 1 - x^2 / 2; the model draws latitudes below 10 and above 85 degrees.
CosE4(lat) ==
  IF Abs(lat) >= 85000 THEN ((90000 - Abs(lat)) * 1745) \div 10000
  ELSE 10000 - ((lat * lat) \div 656500)

\* haversineDistance in metres.  For the short arcs of one graph the
\* haversine formula is d^2 = dLat^2 + cos(lat1) cos(lat2) dLng^2.
haversineDistance(lat1, lng1, lat2, lng2) ==
  LET dLat == ArcMetres(Abs(lat2 - lat1))
      dLng == ArcMetres(Abs(lng2 - lng1))
      x1 == (dLng * CosE4(lat1)) \div 10000
      x2 == (dLng * CosE4(lat2)) \div 10000
  IN IF dLng = 0 THEN dLat
     ELSE ISqrt(dLat * dLat + x1 * x2)

(***************************************************************************)
(* PriorityQueue (routingService.js:12-33)                                 *)
(***************************************************************************)
\* enqueue: push, then a stable sort by priority.  The list was sorted, so
\* the new entry ends behind every entry of priority <= its own.
Enqueue(items, item, priority) ==
  SelectSeq(items, LAMBDA e : e.priority <= priority)
    \o << [item |-> item, priority |-> priority] >>
    \o SelectSeq(items, LAMBDA e : e.priority > priority)

\* dequeue: items.shift()?.item
DequeueItem(items) == Head(items).item

\* a dequeue that reads the first entry and leaves it in the list
DequeueRest_Peek(items) == items

DequeueRest(items) == Tail(items)

(***************************************************************************)
(* Graphs.  A graph is the array of its GraphNodes; node ids are 0, 1, ..  *)
(* ("node_0", "node_1", ..) and the node of id k is graph[k + 1].  A       *)
(* connection holds its target's id where the code holds a reference.      *)
(***************************************************************************)
GraphNode(id, lat, lng, connections) ==
  [id |-> id, lat |-> lat, lng |-> lng, connections |-> connections]

NodeOf(graph, id) == graph[id + 1]

NodeIds(graph) == {graph[i].id : i \in 1..Len(graph)}

\* the base accident risk 0.1 of a new connection, in fiftieths
BaseAccidentRisk == 5

\* the elements of a set of integers as an ascending sequence
RECURSIVE SortedSeq(_)
SortedSeq(S) ==
  IF S = {} THEN << >>
  ELSE LET m == CHOOSE x \in S : \A y \in S : x <= y
       IN << m >> \o SortedSeq(S \ {m})

(***************************************************************************)
(* heuristic, calculateEdgeWeight, reconstructPath                         *)
(***************************************************************************)
\* the common denominator of the three weight multipliers
WeightScale == 10 * 50 * 50

\* heuristic(nodeA, nodeB): the great-circle distance
heuristic(nodeA, nodeB) ==
  WeightScale * haversineDistance(nodeA.lat, nodeA.lng, nodeB.lat, nodeB.lng)

\* trafficMultiplier without its base 1: trafficLevel * 2
TrafficMultiplier_NoBase(connection) == connection.trafficLevel * 2

\* trafficMultiplier = 1 + trafficLevel * 2, over 10
TrafficMultiplier(connection) == 10 + connection.trafficLevel * 2

\* safetyMultiplier with the factor of the traffic multiplier:
\* 1 + accidentRisk * 2
SafetyMultiplier_Double(connection) == 50 + connection.accidentRisk * 2

\* safetyMultiplier = 1 + accidentRisk * 3, over 50
SafetyMultiplier(connection) == 50 + connection.accidentRisk * 3

\* the 'fire' adjustment 1 + accidentRisk, over 50
FireMultiplier(connection) == 50 + connection.accidentRisk

calculateEdgeWeight(connection, options) ==
  connection.distance
    * (IF options.avoidTraffic THEN TrafficMultiplier(connection) ELSE 10)
    * (IF options.prioritizeSafety THEN SafetyMultiplier(connection) ELSE 50)
    * (IF options.emergencyType = "fire" THEN FireMultiplier(connection) ELSE 50)

\* reconstructPath: walk cameFrom back from `current`, unshifting
RECURSIVE ReconstructFrom(_, _, _)
ReconstructFrom(cameFrom, current, route) ==
  IF current \in DOMAIN cameFrom
  THEN ReconstructFrom(cameFrom, cameFrom[current].node,
         [nodes |-> << cameFrom[current].node >> \o route.nodes,
          connections |-> << cameFrom[current].connection >> \o route.connections])
  ELSE route

\* reconstructPath with `path` started empty instead of [current]
reconstructPath_EmptyStart(cameFrom, current) ==
  ReconstructFrom(cameFrom, current, [nodes |-> << >>, connections |-> << >>])

\* reconstructPath that unshifts `current` onto the path that holds it
reconstructPath_CurrentTwice(cameFrom, current) ==
  ReconstructFrom(cameFrom, current,
    [nodes |-> << current, current >>, connections |-> << >>])

reconstructPath(cameFrom, current) ==
  ReconstructFrom(cameFrom, current, [nodes |-> << current >>, connections |-> << >>])

(***************************************************************************)
(* null and optional values: << >> is null, << v >> holds v                *)
(***************************************************************************)
Null == << >>

Some(v) == << v >>

(***************************************************************************)
(* findNearestNode (routingService.js:544-561)                             *)
(***************************************************************************)
\* the loop from index i on, with the best node and distance so far
RECURSIVE NearestFrom(_, _, _, _, _)
NearestFrom(graph, point, i, nearest, minDist) ==
  IF i > Len(graph) THEN nearest
  ELSE LET dist == haversineDistance(point.lat, point.lng, graph[i].lat, graph[i].lng)
       IN IF LessThan(dist, minDist)
          THEN NearestFrom(graph, point, i + 1, Some(graph[i].id), dist)
          ELSE NearestFrom(graph, point, i + 1, nearest, minDist)

\* the loop with `dist <= minDist`: the last of the nearest nodes is kept
RECURSIVE NearestFrom_LastWins(_, _, _, _, _)
NearestFrom_LastWins(graph, point, i, nearest, minDist) ==
  IF i > Len(graph) THEN nearest
  ELSE LET dist == haversineDistance(point.lat, point.lng, graph[i].lat, graph[i].lng)
       IN IF ~LessThan(minDist, dist)
          THEN NearestFrom_LastWins(graph, point, i + 1, Some(graph[i].id), dist)
          ELSE NearestFrom_LastWins(graph, point, i + 1, nearest, minDist)

findNearestNode_LastWins(graph, point) ==
  NearestFrom_LastWins(graph, point, 1, Null, Infinity)

findNearestNode(graph, point) == NearestFrom(graph, point, 1, Null, Infinity)

(***************************************************************************)
(* calculateBearing, normalizeAngle (routingService.js:594-613)            *)
(***************************************************************************)
\* atan(lo / hi) in whole degrees for 0 <= lo <= hi, hi > 0:
\* 45 z + z (1 - z) (14.02 + 3.8 z), within a tenth of a degree of Math.atan
AtanDeg(lo, hi) ==
  LET z == (1000 * lo) \div hi
      milli == 45 * z + (((z * (1000 - z)) \div 100) * (14020 + (38 * z) \div 10)) \div 10000
  IN RoundDiv(milli, 1000)

\* toDegrees(Math.atan2(y, x)) in whole degrees, in -180 < . <= 180
Atan2Deg(y, x) ==
  LET ay == Abs(y)
      ax == Abs(x)
      a == IF ax = 0 /\ ay = 0 THEN 0
           ELSE IF ay <= ax THEN AtanDeg(ay, ax) ELSE 90 - AtanDeg(ax, ay)
      q == IF x >= 0 THEN a ELSE 180 - a
  IN IF y >= 0 THEN q ELSE IF q = 180 THEN 180 ELSE -q

\* calculateBearing: y = sin(dLng) cos(lat2) is the eastward and
\* x = cos(lat1) sin(lat2) - sin(lat1) cos(lat2) cos(dLng) the northward
\* component of the short arc, both in metres
calculateBearing(lat1, lng1, lat2, lng2) ==
  LET north == ArcMetres(Abs(lat2 - lat1)) * (IF lat2 >= lat1 THEN 1 ELSE -1)
      east == ((ArcMetres(Abs(lng2 - lng1)) * CosE4(lat2)) \div 10000)
                * (IF lng2 >= lng1 THEN 1 ELSE -1)
  IN Atan2Deg(east, north)

RECURSIVE normalizeAngle(_)
normalizeAngle(angle) ==
  IF angle > 180 THEN normalizeAngle(angle - 360)
  ELSE IF angle < -180 THEN normalizeAngle(angle + 360)
  ELSE angle

(***************************************************************************)
(* generateInstructions (routingService.js:421-477)                        *)
(***************************************************************************)
\* connections[i]?.distance || 0, i counted from 0
DistanceAt(connections, i) ==
  IF i + 1 <= Len(connections) THEN connections[i + 1].distance ELSE 0

\* the action chosen for a turn angle
TurnAction(turnAngle) ==
  IF turnAngle > 30 /\ turnAngle < 150 THEN "turn_right"
  ELSE IF turnAngle < -30 /\ turnAngle > -150 THEN "turn_left"
  ELSE IF Abs(turnAngle) >= 150 THEN "u_turn"
  ELSE "straight"

\* TurnInstruction with `step: i` for `step: i + 1`
TurnInstruction_StepFromZero(graph, route, i) ==
  LET curr == NodeOf(graph, route.nodes[i + 1])
  IN [step |-> i, action |-> "straight",
      distance |-> DistanceAt(route.connections, i),
      coordinates |-> [lat |-> curr.lat, lng |-> curr.lng]]

\* the instruction of the intermediate node nodes[i], i counted from 0
TurnInstruction(graph, route, i) ==
  LET prev == NodeOf(graph, route.nodes[i])
      curr == NodeOf(graph, route.nodes[i + 1])
      next == NodeOf(graph, route.nodes[i + 2])
      bearing1 == calculateBearing(prev.lat, prev.lng, curr.lat, curr.lng)
      bearing2 == calculateBearing(curr.lat, curr.lng, next.lat, next.lng)
      turnAngle == normalizeAngle(bearing2 - bearing1)
  IN [step |-> i + 1, action |-> TurnAction(turnAngle),
      distance |-> DistanceAt(route.connections, i),
      coordinates |-> [lat |-> curr.lat, lng |-> curr.lng]]

generateInstructions(graph, route) ==
  IF Len(route.nodes) < 2 THEN << >>
  ELSE LET first == [step |-> 1, action |-> "start",
                     towards |-> [lat |-> NodeOf(graph, route.nodes[2]).lat,
                                  lng |-> NodeOf(graph, route.nodes[2]).lng],
                     distance |-> DistanceAt(route.connections, 0)]
           turns == [i \in 1..(Len(route.nodes) - 2) |-> TurnInstruction(graph, route, i)]
           sofar == << first >> \o turns
       IN sofar \o << [step |-> Len(sofar) + 1, action |-> "arrive", distance |-> 0] >>

(***************************************************************************)
(* calculateRouteMetadata (routingService.js:482-520)                      *)
(***************************************************************************)
RECURSIVE TotalDistance(_)
TotalDistance(connections) ==
  IF connections = << >> THEN 0
  ELSE Head(connections).distance + TotalDistance(Tail(connections))

RECURSIVE TrafficSum(_)
TrafficSum(connections) ==
  IF connections = << >> THEN 0
  ELSE Head(connections).trafficLevel + TrafficSum(Tail(connections))

\* the accidentRisk of the first connection alone
MaxAccidentRisk_First(connections) ==
  IF connections = << >> THEN 0 ELSE Head(connections).accidentRisk

RECURSIVE MaxAccidentRisk(_)
MaxAccidentRisk(connections) ==
  IF connections = << >> THEN 0
  ELSE Max2(Head(connections).accidentRisk, MaxAccidentRisk(Tail(connections)))

\* (conn.distance / speedKmh) * 60 with speedKmh = 30 (1 - trafficLevel / 2),
\* in thousandths of a minute
EdgeTimeMilli(conn) == (40 * conn.distance) \div (20 - conn.trafficLevel)

RECURSIVE TotalTimeMilli(_)
TotalTimeMilli(connections) ==
  IF connections = << >> THEN 0
  ELSE EdgeTimeMilli(Head(connections)) + TotalTimeMilli(Tail(connections))

calculateRouteMetadata(route) ==
  LET connections == route.connections
      totalDistance == TotalDistance(connections)
      totalTime == TotalTimeMilli(connections)
      trafficSum == TrafficSum(connections)
      maxAccidentRisk == MaxAccidentRisk(connections)
      safetyScore == (50 - maxAccidentRisk) * 2
  IN [totalDistanceKm100 |-> RoundDiv(totalDistance, 10),
      estimatedTimeMin |-> RoundDiv(totalTime, 1000),
      waypoints |-> Len(route.nodes),
      avgTrafficLevel100 |->
        IF Len(connections) > 0 THEN RoundDiv(trafficSum * 10, Len(connections)) ELSE 0,
      maxAccidentRisk100 |-> maxAccidentRisk * 2,
      safetyScore |-> safetyScore,
      criteria |-> [shortestPath |-> TRUE,
                    lowTraffic |-> IF Len(connections) > 0
                                   THEN trafficSum < 3 * Len(connections)
                                   ELSE TRUE,
                    safePassage |-> safetyScore > 70,
                    minimalTime |-> totalTime < 30 * 1000]]

\* convertToGeoJSON: the LineString's coordinates, [lng, lat] per node
convertToGeoJSON(graph, route) ==
  [i \in 1..Len(route.nodes) |->
     << NodeOf(graph, route.nodes[i]).lng, NodeOf(graph, route.nodes[i]).lat >>]

(***************************************************************************)
(* aStarPathfinding (routingService.js:276-323): the body of one pass of   *)
(* the while loop, for the dequeued node `current`                         *)
(***************************************************************************)
\* the for loop over current.connections from index i on; st holds
\* openSet, cameFrom, gScore and fScore
RECURSIVE RelaxFrom(_, _, _, _, _, _, _)
RelaxFrom(graph, current, i, st, closed, goal, options) ==
  IF i > Len(NodeOf(graph, current).connections) THEN st
  ELSE
    LET connection == NodeOf(graph, current).connections[i]
        neighbor == connection.node
        edgeWeight == calculateEdgeWeight(connection, options)
        tentativeGScore == Plus(GetOrInfinity(st.gScore, current), edgeWeight)
        f == tentativeGScore + heuristic(NodeOf(graph, neighbor), NodeOf(graph, goal))
    IN IF neighbor \in closed
       THEN RelaxFrom(graph, current, i + 1, st, closed, goal, options)
       ELSE IF LessThan(tentativeGScore, GetOrInfinity(st.gScore, neighbor))
       THEN RelaxFrom(graph, current, i + 1,
              [openSet |-> Enqueue(st.openSet, neighbor, f),
               cameFrom |-> (neighbor :> [node |-> current, connection |-> connection])
                              @@ st.cameFrom,
               gScore |-> (neighbor :> tentativeGScore) @@ st.gScore,
               fScore |-> (neighbor :> f) @@ st.fScore],
              closed, goal, options)
       ELSE RelaxFrom(graph, current, i + 1, st, closed, goal, options)

(***************************************************************************)
(* calculateOptimalRoute (routingService.js:60-112)                        *)
(***************************************************************************)
PreferenceNames == {"prioritizeSafety", "avoidTraffic", "emergencyType"}

\* the destructuring defaults of lines 61-66
OptionsOf(preferences) ==
  [prioritizeSafety |-> IF "prioritizeSafety" \in DOMAIN preferences
                        THEN preferences["prioritizeSafety"] ELSE TRUE,
   avoidTraffic |-> IF "avoidTraffic" \in DOMAIN preferences
                    THEN preferences["avoidTraffic"] ELSE TRUE,
   maxDistance |-> Null,
   emergencyType |-> IF "emergencyType" \in DOMAIN preferences
                     THEN preferences["emergencyType"] ELSE "general"]

\* the catch block: { success: false, error: error.message }
Failure(message) == [success |-> FALSE, error |-> message]

\* RouteOutcome without the `if (!route) throw` of lines 88-90
RouteOutcome_NoNullCheck(graph, route) ==
  LET r == IF route = Null THEN [nodes |-> << >>, connections |-> << >>] ELSE route[1]
  IN [success |-> TRUE,
      route |-> convertToGeoJSON(graph, r),
      instructions |-> generateInstructions(graph, r),
      metadata |-> calculateRouteMetadata(r),
      path |-> r]

\* RouteOutcome with the time of the calculation in what it returns
RouteOutcome_Stamped(graph, route) ==
  IF route = Null THEN [success |-> FALSE, error |-> "No valid route found", at |-> now]
  ELSE [success |-> TRUE,
        route |-> convertToGeoJSON(graph, route[1]),
        instructions |-> generateInstructions(graph, route[1]),
        metadata |-> ("calculatedAt" :> now) @@ calculateRouteMetadata(route[1]),
        path |-> route[1]]

\* steps 4 and 5 and the returned object, or the throw of line 89
RouteOutcome(graph, route) ==
  IF route = Null THEN Failure("No valid route found")
  ELSE [success |-> TRUE,
        route |-> convertToGeoJSON(graph, route[1]),
        instructions |-> generateInstructions(graph, route[1]),
        metadata |-> calculateRouteMetadata(route[1]),
        path |-> route[1]]

(***************************************************************************)
(* Graph Builder: calculateBounds, generateGridGraph, findNeighbors        *)
(* (routingService.js:129-204, 566-573)                                    *)
(***************************************************************************)
\* the 0.02 degree buffer of line 129, in millidegrees
Buffer == 20

\* the 0.005 degree grid size of line 130, in millidegrees
GridSize == 5

calculateBounds(s, e, buffer) ==
  [minLat |-> Min2(s.lat, e.lat) - buffer, maxLat |-> Max2(s.lat, e.lat) + buffer,
   minLng |-> Min2(s.lng, e.lng) - buffer, maxLng |-> Max2(s.lng, e.lng) + buffer]

\* how often `for (x = lo; x <= hi; x += step)` runs its body
LoopCount(lo, hi, step) == IF hi < lo THEN 0 ELSE (hi - lo) \div step + 1

\* the grid nodes of lines 152-157 in creation order, none connected yet
GridNodes(bounds, gridSize) ==
  LET rows == LoopCount(bounds.minLat, bounds.maxLat, gridSize)
      cols == LoopCount(bounds.minLng, bounds.maxLng, gridSize)
  IN [k \in 1..(rows * cols) |->
        GraphNode(k - 1, bounds.minLat + ((k - 1) \div cols) * gridSize,
                         bounds.minLng + ((k - 1) % cols) * gridSize, << >>)]

\* dist <= maxDistance with maxDistance = gridSize * 1.5: the code compares
\* the distance, a number of kilometres, with 1.5 times the grid size, a
\* number of degrees.  dist is in metres and gridSize in millidegrees here,
\* so both sides carry the same factor 1000.
WithinGridDistance(dist, gridSize) == 2 * dist <= 3 * gridSize

\* findNeighbors without the `continue` of line 191: a node within
\* maxDistance of itself is its own neighbour
findNeighbors_WithSelf(node, allNodes, gridSize) ==
  SelectSeq([k \in 1..Len(allNodes) |-> allNodes[k].id],
            LAMBDA id :
              WithinGridDistance(
                haversineDistance(node.lat, node.lng,
                                  allNodes[id + 1].lat, allNodes[id + 1].lng),
                gridSize))

\* findNeighbors that scans only the nodes created after `node`
findNeighbors_Forward(node, allNodes, gridSize) ==
  SelectSeq([k \in 1..Len(allNodes) |-> allNodes[k].id],
            LAMBDA id :
              /\ id > node.id
              /\ WithinGridDistance(
                   haversineDistance(node.lat, node.lng,
                                     allNodes[id + 1].lat, allNodes[id + 1].lng),
                   gridSize))

\* findNeighbors: the ids of the other nodes within maxDistance, in array order
findNeighbors(node, allNodes, gridSize) ==
  SelectSeq([k \in 1..Len(allNodes) |-> allNodes[k].id],
            LAMBDA id :
              /\ id # node.id
              /\ WithinGridDistance(
                   haversineDistance(node.lat, node.lng,
                                     allNodes[id + 1].lat, allNodes[id + 1].lng),
                   gridSize))

\* Math.random() * 0.5 in tenths, for the n-th call of a run: a stream
\* fixed by its seed, over all of 0 .. 0.4
RandomTraffic(seed, n) == (seed + 3 * n) % 5

\* the number of Math.random calls of lines 162-178 before node index k:
\* one per neighbour of each node before it
RECURSIVE CallsBefore(_, _)
CallsBefore(neighbors, k) ==
  IF k <= 1 THEN 0 ELSE CallsBefore(neighbors, k - 1) + Len(neighbors[k - 1])

\* lines 162-178: every node with a connection to each of its neighbours;
\* neighbors[k] is what findNeighbors returns for node index k
ConnectNodes(nodeArray, neighbors, seed) ==
  [k \in 1..Len(nodeArray) |->
     GraphNode(nodeArray[k].id, nodeArray[k].lat, nodeArray[k].lng,
       [n \in 1..Len(neighbors[k]) |->
          [node |-> neighbors[k][n],
           distance |-> haversineDistance(nodeArray[k].lat, nodeArray[k].lng,
                                          nodeArray[neighbors[k][n] + 1].lat,
                                          nodeArray[neighbors[k][n] + 1].lng),
           trafficLevel |-> RandomTraffic(seed, CallsBefore(neighbors, k) + n - 1),
           accidentRisk |-> BaseAccidentRisk]])]

\* nodeArray holds the nodes of lines 152-157
generateGridGraph(bounds, gridSize, seed) ==
  CHOOSE g \in
    UNION {{ConnectNodes(nodeArray, neighbors, seed) :
              neighbors \in {[k \in 1..Len(nodeArray) |->
                                findNeighbors(nodeArray[k], nodeArray, gridSize)]}} :
           nodeArray \in {GridNodes(bounds, gridSize)}} : TRUE

(***************************************************************************)
(* Risk Enrichment: enrichWithAccidentData (routingService.js:209-271)     *)
(***************************************************************************)
\* the radius of the accident query (line 229), in the units of SRID 4326
QueryRadius == 5000

\* the 200 m radius around an edge's midpoint (line 255)
NearbyRadius == 200

\* the severity taken for an accident that has none (line 257)
DefaultSeverity == 5

\* turf.distance in metres between two points given by twice their
\* coordinates (an edge's midpoint has half-millidegree coordinates)
halfDistance(lat1x2, lng1x2, lat2x2, lng2x2) ==
  LET dLat == ArcMetres(Abs(lat2x2 - lat1x2)) \div 2
      dLng == ArcMetres(Abs(lng2x2 - lng1x2)) \div 2
      x1 == (dLng * CosE4(lat1x2 \div 2)) \div 10000
      x2 == (dLng * CosE4(lat2x2 \div 2)) \div 10000
  IN IF dLng = 0 THEN dLat ELSE ISqrt(dLat * dLat + x1 * x2)

\* the distance ST_DWithin measures between two geometries of SRID 4326:
\* planar, in degrees (whole degrees here)
PlanarDegrees(lat1, lng1, lat2, lng2) ==
  ISqrt(((lat2 - lat1) \div 1000) * ((lat2 - lat1) \div 1000)
          + ((lng2 - lng1) \div 1000) * ((lng2 - lng1) \div 1000))

\* the rows AccidentHistory.findAll returns: those within the radius of the
\* first node (of the point 0, 0 when the graph has no node).  The column is
\* a geometry, so the radius 5000 counts degrees and no row is left out
QueryAccidents(g, table) ==
  LET lat0 == IF Len(g) > 0 THEN g[1].lat ELSE 0
      lng0 == IF Len(g) > 0 THEN g[1].lng ELSE 0
  IN SelectSeq(table, LAMBDA a :
       PlanarDegrees(a.lat, a.lng, lat0, lng0) <= QueryRadius)

\* accident.severity || 5
SeverityOf(accident) ==
  IF accident.severity = Null \/ accident.severity = << 0 >>
  THEN DefaultSeverity ELSE accident.severity[1]

\* the accidents within 200 m of the midpoint of the edge node -> target
NearbyAccidents(node, target, accidents) ==
  SelectSeq(accidents, LAMBDA a :
    halfDistance(node.lat + target.lat, node.lng + target.lng, 2 * a.lat, 2 * a.lng)
      < NearbyRadius)

RECURSIVE TotalSeverity(_)
TotalSeverity(accidents) ==
  IF accidents = << >> THEN 0
  ELSE SeverityOf(Head(accidents)) + TotalSeverity(Tail(accidents))

\* the risk from the average severity alone: Math.min(1, avgSeverity / 50)
EnrichedRisk_Average(connection, nearby) ==
  IF Len(nearby) > 0 THEN Min2(50, TotalSeverity(nearby) \div Len(nearby))
  ELSE connection.accidentRisk

\* lines 261-265: Math.min(1, (nearbyAccidents * avgSeverity) / 50), in
\* fiftieths; nearbyAccidents * avgSeverity is the severity total
EnrichedRisk(connection, nearby) ==
  IF Len(nearby) > 0 THEN Min2(50, TotalSeverity(nearby))
  ELSE connection.accidentRisk

\* the loops of lines 236-267 over all nodes and connections
EnrichGraph(g, accidents) ==
  [k \in 1..Len(g) |->
     GraphNode(g[k].id, g[k].lat, g[k].lng,
       [n \in 1..Len(g[k].connections) |->
          [g[k].connections[n] EXCEPT
             !.accidentRisk =
                EnrichedRisk(g[k].connections[n],
                  NearbyAccidents(g[k], NodeOf(g, g[k].connections[n].node), accidents))]])]

(***************************************************************************)
(* Hand-built graphs for the search: MaxNodes nodes on a zigzag near the   *)
(* equator, any set of at most MaxEdges directed edges with traffic levels *)
(* spread over 0 .. 0.4, at most one of them with a high accident risk.    *)
(***************************************************************************)
Ids == 0..(MaxNodes - 1)

Position(i) == [lat |-> 3 * i, lng |-> 4 * (i % 2)]

Points == {Position(i) : i \in Ids}

\* a point off the nodes, as far from node 0 as from node 2 and farther
\* from every other node
Midway == [lat |-> 3, lng |-> 0]

\* the start and the end of a call: two node positions, or node 0 and the
\* point off the nodes
Endpoints == (Points \X Points) \cup {<< Position(0), Midway >>}

Pairs == {e \in Ids \X Ids : e[1] # e[2]}

EdgeSets == {E \in SUBSET Pairs : Cardinality(E) <= MaxEdges}

Connection(i, j, kind) ==
  [node |-> j,
   distance |-> haversineDistance(Position(i).lat, Position(i).lng,
                                  Position(j).lat, Position(j).lng),
   trafficLevel |-> (i + 2 * j) % 5,
   accidentRisk |-> IF kind = "risky" THEN 45 ELSE BaseAccidentRisk]

HandGraph(E, special, kind) ==
  [k \in 1..MaxNodes |->
     LET targets == SortedSeq({j \in Ids : << k - 1, j >> \in E})
     IN GraphNode(k - 1, Position(k - 1).lat, Position(k - 1).lng,
          [n \in 1..Len(targets) |->
             Connection(k - 1, targets[n],
                        IF << k - 1, targets[n] >> = special THEN kind ELSE "plain")])]

\* the first edge of a set, by source and then by target
FirstEdge(E) ==
  CHOOSE e \in E : \A f \in E : e[1] < f[1] \/ (e[1] = f[1] /\ e[2] <= f[2])

\* every edge set twice: with base risks, and with a high risk on its first edge
HandGraphs ==
  {HandGraph(E, << >>, "plain") : E \in EdgeSets}
    \cup {HandGraph(E, FirstEdge(E), "risky") : E \in EdgeSets \ {{}}}

PreferenceSets ==
  {[n \in D |-> IF n = "emergencyType" THEN "fire" ELSE FALSE] :
     D \in SUBSET PreferenceNames}

(***************************************************************************)
(* State                                                                   *)
(***************************************************************************)
VARIABLES
  graph,        \* the graph buildRouteGraph returned to calculateOptimalRoute
  start, end,   \* the coordinates of the call
  preferences,  \* its preferences argument
  pc,           \* where the call stands: build, query, endpoints, search, done
  startNode, endNode,
  openSet, closedSet, cameFrom, gScore, fScore,
  route,        \* what aStarPathfinding returned (Null before, and for null)
  result,       \* what calculateOptimalRoute resolved to (Null before)
  seed,         \* the seed of the Math.random stream of a graph generation
  accidentTable, \* the rows of the AccidentHistory table at the query
  accidents,    \* the rows the accident query returned
  enrichment,   \* none, pending (query issued), enriched, failed (query threw)
  graphCache,   \* RoutingService.graphCache: cache key -> {graph, timestamp}
  calls,        \* the calls of calculateOptimalRoute in flight
  graphs,       \* the graph objects built so far
  runs,         \* route and result of the earlier runs of the search
  serviceTable, \* the rows of the EmergencyService table
  serviceQuery, \* location, serviceType and limit of a findNearestService call
  serviceResult, \* what findNearestService resolved to (Null before)
  angleIn,      \* the argument of a call of normalizeAngle
  angleOut,     \* what it returned (Null before)
  events,       \* the rows of the disaster_events table
  polls,        \* the poll runs of the DisasterMonitor started so far
  alerts        \* the notifications notifyAffectedUsers has emitted

callVars == << start, end, preferences >>

searchVars == << startNode, endNode, openSet, closedSet, cameFrom, gScore, fScore,
                 route, result >>

buildVars == << seed, accidentTable, accidents, enrichment >>

cacheVars == << now, graphCache, calls, graphs, runs >>

serviceVars == << serviceTable, serviceQuery, serviceResult >>

angleVars == << angleIn, angleOut >>

pollVars == << events, polls, alerts >>

vars == << graph, pc, callVars, searchVars, buildVars, cacheVars, serviceVars, angleVars, pollVars >>

EmptyMap == [x \in {} |-> 0]

SearchInit ==
  /\ graph \in HandGraphs \cup {<< >>}
  /\ \E p \in Endpoints : start = p[1] /\ end = p[2]
  /\ preferences \in PreferenceSets
  /\ pc = "endpoints"
  /\ startNode = Null /\ endNode = Null
  /\ openSet = << >> /\ closedSet = {}
  /\ cameFrom = EmptyMap /\ gScore = EmptyMap /\ fScore = EmptyMap
  /\ route = Null /\ result = Null
  /\ seed = 0 /\ accidentTable = << >> /\ accidents = << >> /\ enrichment = "none"
  /\ now = 0 /\ graphCache = EmptyMap /\ calls = << >> /\ graphs = << >>
  /\ runs = << >>
  /\ angleIn = 0 /\ angleOut = << >>
  /\ events = << >> /\ polls = << >> /\ alerts = << >>
  /\ serviceTable = << >> /\ serviceQuery = << >> /\ serviceResult = << >>

\* step 2, then either the throw of line 77 or lines 279-287
ResolveEndpoints ==
  /\ pc = "endpoints"
  /\ \E s \in {findNearestNode(graph, start)}, e \in {findNearestNode(graph, end)} :
        /\ startNode' = s
        /\ endNode' = e
        /\ IF s = Null \/ e = Null
           THEN /\ result' = Some(Failure("Could not find valid route endpoints"))
                /\ pc' = "done"
                /\ UNCHANGED << openSet, gScore, fScore >>
           ELSE \E h \in {heuristic(NodeOf(graph, s[1]), NodeOf(graph, e[1]))} :
                   /\ gScore' = (s[1] :> 0)
                   /\ fScore' = (s[1] :> h)
                   /\ openSet' = Enqueue(<< >>, s[1], h)
                   /\ pc' = "search"
                   /\ UNCHANGED result
  /\ UNCHANGED << buildVars, cacheVars, serviceVars, angleVars, pollVars >>
  /\ UNCHANGED << graph, start, end, preferences, closedSet, cameFrom, route >>

\* one pass of the while loop that dequeues a node other than the goal
AStarExpand ==
  /\ pc = "search"
  /\ openSet # << >>
  /\ DequeueItem(openSet) # endNode[1]
  /\ \E current \in {DequeueItem(openSet)} :
       \E st \in {RelaxFrom(graph, current, 1,
                    [openSet |-> DequeueRest(openSet), cameFrom |-> cameFrom,
                     gScore |-> gScore, fScore |-> fScore],
                    closedSet \cup {current}, endNode[1], OptionsOf(preferences))} :
          /\ closedSet' = closedSet \cup {current}
          /\ openSet' = st.openSet
          /\ cameFrom' = st.cameFrom
          /\ gScore' = st.gScore
          /\ fScore' = st.fScore
  /\ UNCHANGED << buildVars, cacheVars, serviceVars, angleVars, pollVars >>
  /\ UNCHANGED << graph, start, end, preferences, pc, startNode, endNode, route, result >>

\* the pass that dequeues the goal: reconstructPath, steps 4 and 5, return
AStarReachGoal ==
  /\ pc = "search"
  /\ openSet # << >>
  /\ DequeueItem(openSet) = endNode[1]
  /\ openSet' = DequeueRest(openSet)
  /\ \E r \in {Some(reconstructPath(cameFrom, DequeueItem(openSet)))} :
        /\ route' = r
        /\ result' = Some(RouteOutcome(graph, r))
  /\ pc' = "done"
  /\ UNCHANGED << buildVars, cacheVars, serviceVars, angleVars, pollVars >>
  /\ UNCHANGED << graph, start, end, preferences, startNode, endNode,
                  closedSet, cameFrom, gScore, fScore >>

\* the open set is empty: return null, the throw of line 89, the catch
AStarExhausted ==
  /\ pc = "search"
  /\ openSet = << >>
  /\ route' = Null
  /\ result' = Some(RouteOutcome(graph, Null))
  /\ pc' = "done"
  /\ UNCHANGED << buildVars, cacheVars, serviceVars, angleVars, pollVars >>
  /\ UNCHANGED << graph, start, end, preferences, startNode, endNode,
                  openSet, closedSet, cameFrom, gScore, fScore >>

Init == SearchInit

(***************************************************************************)
(* buildRouteGraph without the cache, then the search on the built graph:  *)
(* lines 129-133 and 209-271 as the steps of one call                      *)
(***************************************************************************)
\* the largest seed of the Math.random stream
MaxSeed == 1

\* the most rows the accident table holds
MaxAccidents == 2

\* a call near the equator and one half a degree from the pole
GridStarts == {[lat |-> 0, lng |-> 0], [lat |-> 89500, lng |-> 0]}

\* the end: the start itself, or one grid step east of it
GridEnds(s) == {s, [lat |-> s.lat, lng |-> s.lng + GridSize]}

\* rows of the accident table: at the first grid node with no, the least and
\* the greatest severity, and one over 5 km away
AccidentRows(s) ==
  {[lat |-> s.lat - Buffer, lng |-> s.lng - Buffer, severity |-> sev] :
     sev \in {Null, << 1 >>, << 10 >>}}
    \cup {[lat |-> s.lat - Buffer - 100, lng |-> s.lng - Buffer, severity |-> << 10 >>]}

RECURSIVE SeqsUpTo(_, _)
SeqsUpTo(S, n) ==
  IF n = 0 THEN {<< >>}
  ELSE SeqsUpTo(S, n - 1)
         \cup {Append(q, x) : q \in {r \in SeqsUpTo(S, n - 1) : Len(r) = n - 1}, x \in S}

AccidentTables(s) == SeqsUpTo(AccidentRows(s), MaxAccidents)

BuildInit ==
  /\ graph = << >>
  /\ start \in GridStarts
  /\ end \in GridEnds(start)
  /\ preferences = EmptyMap
  /\ pc = "build"
  /\ startNode = Null /\ endNode = Null
  /\ openSet = << >> /\ closedSet = {}
  /\ cameFrom = EmptyMap /\ gScore = EmptyMap /\ fScore = EmptyMap
  /\ route = Null /\ result = Null
  /\ seed \in 0..MaxSeed /\ accidentTable = << >> /\ accidents = << >> /\ enrichment = "none"
  /\ now = 0 /\ graphCache = EmptyMap /\ calls = << >> /\ graphs = << >>
  /\ runs = << >>
  /\ angleIn = 0 /\ angleOut = << >>
  /\ events = << >> /\ polls = << >> /\ alerts = << >>
  /\ serviceTable = << >> /\ serviceQuery = << >> /\ serviceResult = << >>

\* lines 129-130, and enrichWithAccidentData up to its await of findAll
GenerateGraph ==
  /\ pc = "build"
  /\ graph' = generateGridGraph(calculateBounds(start, end, Buffer), GridSize, seed)
  /\ enrichment' = "pending"
  /\ pc' = "query"
  /\ UNCHANGED << callVars, searchVars, seed, accidentTable, accidents, cacheVars, serviceVars, angleVars, pollVars >>

\* `${start.lat},${start.lng}-${end.lat},${end.lng}`
CacheKey(s, e) == << s, e >>

\* lines 136-139: the graph of this call goes into the cache
StoreGraph(g) ==
  graphCache' = (CacheKey(start, end) :> [graph |-> g, timestamp |-> now]) @@ graphCache

\* the tables accident_history may hold at a query: the rows it is known
\* to hold, or any table while none is known.  The service only reads it
TablesNow ==
  IF accidentTable # << >> THEN {accidentTable} ELSE AccidentTables(start)

\* findAll resolves: lines 236-267; then lines 136-141 cache and return
\* the graph
QueryResolves ==
  /\ pc = "query"
  /\ \E table \in TablesNow :
       \E found \in {QueryAccidents(graph, table)} :
         \E g \in {EnrichGraph(graph, found)} :
          /\ accidentTable' = table
          /\ accidents' = found
          /\ graph' = g
          /\ StoreGraph(g)
  /\ enrichment' = "enriched"
  /\ pc' = "endpoints"
  /\ UNCHANGED << callVars, searchVars, seed, now, calls, graphs, runs,
                  serviceVars, angleVars, pollVars >>

\* findAll rejects and the error is thrown on to calculateOptimalRoute
QueryFails_Rethrows ==
  /\ pc = "query"
  /\ enrichment' = "failed"
  /\ result' = << [success |-> FALSE, error |-> "accident query failed"] >>
  /\ pc' = "done"
  /\ UNCHANGED << graph, start, end, preferences, startNode, endNode, openSet,
                  closedSet, cameFrom, gScore, fScore, route, seed, accidentTable,
                  accidents, cacheVars, serviceVars, angleVars, pollVars >>

\* findAll rejects: the catch of lines 268-270 logs, the graph stays as
\* built; then lines 136-141 cache and return it
QueryFails ==
  /\ pc = "query"
  /\ enrichment' = "failed"
  /\ StoreGraph(graph)
  /\ pc' = "endpoints"
  /\ UNCHANGED << graph, callVars, searchVars, seed, accidentTable, accidents,
                  now, calls, graphs, runs, serviceVars, angleVars, pollVars >>

BuildNext ==
  \/ GenerateGraph \/ QueryResolves \/ QueryFails
  \/ ResolveEndpoints \/ AStarExpand \/ AStarReachGoal \/ AStarExhausted

SpecGrid == BuildInit /\ [][BuildNext]_vars

(***************************************************************************)
(* Concurrent calls on one RoutingService: the cache of buildRouteGraph    *)
(* (lines 118-142), the controller in front of it, and the clock.  A call  *)
(* runs from one await to the next in one step.  A graph object is kept by *)
(* the bounds it was generated for and by how far its enrichment has got;  *)
(* its nodes and edges are those of generateGridGraph above.               *)
(***************************************************************************)
\* the most calls made
MaxCalls == 2

\* the last reading of the clock
MaxTime == 2

\* this.cacheExpiry = 5 * 60 * 1000 ms, in clock units of 150 s
CacheExpiry == 2

ValidPoint == [lat |-> 10000, lng |-> 20000]

\* latitude 95
FarPoint == [lat |-> 95000, lng |-> 20000]

\* latitude 0
ZeroLatPoint == [lat |-> 0, lng |-> 20000]

\* isFloat({ min, max })
IsFloatIn(v, min, max) == min <= v /\ v <= max

\* the validation chain of the route: only userLocation has rules
ValidationErrors(body) ==
  \/ body.userLocation = Null
  \/ ~IsFloatIn(body.userLocation[1].lat, -90000, 90000)
  \/ ~IsFloatIn(body.userLocation[1].lng, -180000, 180000)

\* !userLocation || !userLocation.lat || !userLocation.lng
LocationMissing(userLocation) ==
  userLocation = Null \/ userLocation[1].lat = 0 \/ userLocation[1].lng = 0

\* request bodies: userLocation, destination and destinationType, each
\* present or not
Body(userLocation, destination, destinationType) ==
  [userLocation |-> userLocation, destination |-> destination,
   destinationType |-> destinationType]

RequestBodies ==
  {Body(Some(ValidPoint), Some(ValidPoint), Null),
   Body(Some(ValidPoint), Some(FarPoint), Null),
   Body(Some(FarPoint), Some(ValidPoint), Null),
   Body(Some(ZeroLatPoint), Some(ValidPoint), Null),
   Body(Some(ValidPoint), Null, Some("hospital")),
   Body(Some(ValidPoint), Null, Null)}

\* what findNearestService can resolve to: nothing, or a facility
ServiceResults == {<< >>, << ValidPoint >>}

\* calls made on the service itself: start, end, preferences (a call
\* without preferences runs as a call of the controller does)
DirectCalls ==
  {<< Some(ValidPoint), Some(ValidPoint), "null" >>,
   << Null, Some(ValidPoint), "object" >>}

\* the destructuring of lines 61-66 throws for null; undefined takes {}
Destructurable(prefs) == prefs # "null"

\* Date.now() - cached.timestamp <= this.cacheExpiry
CacheFresh_Inclusive(time, timestamp) == time - timestamp <= CacheExpiry

\* Date.now() - cached.timestamp < this.cacheExpiry
CacheFresh(time, timestamp) == time - timestamp < CacheExpiry

\* buildRouteGraph goes on without awaiting enrichWithAccidentData
EnrichmentSettled_NoAwait(g) == TRUE

\* the promise of enrichWithAccidentData has settled: annotated, or caught
EnrichmentSettled(g) == g.enrichment \in {"enriched", "failed"}

NewCall(origin, s, e, prefs) ==
  [origin |-> origin, start |-> s, end |-> e, preferences |-> prefs,
   pc |-> "done", graph |-> 0,
   seen |-> Null, lookupTime |-> 0, served |-> FALSE, outcome |-> "none",
   response |-> 0]

\* the controller answers without calling the service
Respond(body, status) ==
  /\ calls' = Append(calls, [NewCall("controller", body.userLocation, body.destination,
                                     "object")
                               EXCEPT !.response = status])
  /\ UNCHANGED << graphCache, graphs >>

\* calculateOptimalRoute up to its first await, buildRouteGraph up to its
\* return or its await, enrichWithAccidentData up to its await of findAll
Invoke(origin, s, e, prefs) ==
  \E call \in {NewCall(origin, s, e, prefs)} :
    IF ~Destructurable(prefs)
    THEN /\ calls' = Append(calls, [call EXCEPT !.outcome = "rejected"])
         /\ UNCHANGED << graphCache, graphs >>
    ELSE IF s = Null \/ e = Null
    THEN /\ calls' = Append(calls, [call EXCEPT !.outcome = "failure"])
         /\ UNCHANGED << graphCache, graphs >>
    ELSE \E key \in {CacheKey(s[1], e[1])} :
      IF key \in DOMAIN graphCache /\ CacheFresh(now, graphCache[key].timestamp)
      THEN /\ calls' = Append(calls, [call EXCEPT !.pc = "search",
                   !.graph = graphCache[key].graph, !.seen = Some(graphCache[key]),
                   !.served = TRUE, !.lookupTime = now])
           /\ UNCHANGED << graphCache, graphs >>
      ELSE /\ graphs' = Append(graphs,
                   [key |-> key, bounds |-> calculateBounds(s[1], e[1], Buffer),
                    enrichment |-> "pending", stored |-> 0])
           /\ calls' = Append(calls, [call EXCEPT !.pc = "enrich",
                   !.graph = Len(graphs) + 1, !.lookupTime = now,
                   !.seen = IF key \in DOMAIN graphCache
                            THEN Some(graphCache[key]) ELSE Null])
           /\ UNCHANGED graphCache

idleVars == << graph, pc, callVars, searchVars, buildVars, runs, serviceVars, angleVars, pollVars >>

CacheInit ==
  /\ graph = << >>
  /\ start = ValidPoint /\ end = ValidPoint
  /\ preferences = EmptyMap
  /\ pc = "idle"
  /\ startNode = Null /\ endNode = Null
  /\ openSet = << >> /\ closedSet = {}
  /\ cameFrom = EmptyMap /\ gScore = EmptyMap /\ fScore = EmptyMap
  /\ route = Null /\ result = Null
  /\ seed = 0 /\ accidentTable = << >> /\ accidents = << >> /\ enrichment = "none"
  /\ now = 0 /\ graphCache = EmptyMap /\ calls = << >> /\ graphs = << >>
  /\ runs = << >>
  /\ angleIn = 0 /\ angleOut = << >>
  /\ events = << >> /\ polls = << >> /\ alerts = << >>
  /\ serviceTable = << >> /\ serviceQuery = << >> /\ serviceResult = << >>

\* RoutingController.calculateRoute up to its answer or its await of
\* calculateOptimalRoute; without destinationType and destination,
\* this.autoDetermineDestination throws on the unbound handler
HandleRequest ==
  /\ Len(calls) < MaxCalls
  /\ \E body \in RequestBodies :
       IF ValidationErrors(body) \/ LocationMissing(body.userLocation)
       THEN Respond(body, 400)
       ELSE IF body.destinationType # Null
       THEN \E services \in ServiceResults :
              IF services = << >>
              THEN Respond(body, 404)
              ELSE Invoke("controller", body.userLocation, Some(services[1]),
                          "object")
       ELSE IF body.destination # Null
       THEN Invoke("controller", body.userLocation, body.destination, "object")
       ELSE Respond(body, 500)
  /\ UNCHANGED << now, idleVars >>

\* a caller of the service calls calculateOptimalRoute
DirectCall ==
  /\ Len(calls) < MaxCalls
  /\ \E c \in DirectCalls : Invoke("direct", c[1], c[2], c[3])
  /\ UNCHANGED << now, idleVars >>

\* findAll resolves: lines 236-267 annotate the edges
EnrichResolves ==
  /\ \E g \in 1..Len(graphs) :
       /\ graphs[g].enrichment = "pending"
       /\ graphs' = [graphs EXCEPT ![g].enrichment = "enriched"]
  /\ UNCHANGED << now, graphCache, calls, idleVars >>

\* findAll rejects: the catch of lines 268-270
EnrichCatches ==
  /\ \E g \in 1..Len(graphs) :
       /\ graphs[g].enrichment = "pending"
       /\ graphs' = [graphs EXCEPT ![g].enrichment = "failed"]
  /\ UNCHANGED << now, graphCache, calls, idleVars >>

\* the number of cache writes made so far
Writes == Cardinality({g \in 1..Len(graphs) : graphs[g].stored > 0})

\* lines 136-141, after the await of line 133
CacheStore ==
  /\ \E i \in 1..Len(calls) :
       /\ calls[i].pc = "enrich"
       /\ EnrichmentSettled(graphs[calls[i].graph])
       /\ graphCache' = (graphs[calls[i].graph].key :>
                           [graph |-> calls[i].graph, timestamp |-> now]) @@ graphCache
       /\ graphs' = [graphs EXCEPT ![calls[i].graph].stored = Writes + 1]
       /\ calls' = [calls EXCEPT ![i].pc = "search"]
  /\ UNCHANGED << now, idleVars >>

\* lines 72-111 on the graph buildRouteGraph returned: the call resolves to
\* the structured result of the search, which Spec and SpecGrid follow
Settle ==
  /\ \E i \in 1..Len(calls) :
       /\ calls[i].pc = "search"
       /\ calls' = [calls EXCEPT ![i].pc = "done", ![i].outcome = "result"]
  /\ UNCHANGED << now, graphCache, graphs, idleVars >>

\* the clock advances, for as long as a call can be made or is in flight
Tick ==
  /\ now < MaxTime
  /\ Len(calls) < MaxCalls \/ \E i \in 1..Len(calls) : calls[i].pc # "done"
  /\ now' = now + 1
  /\ UNCHANGED << graphCache, calls, graphs, idleVars >>

CacheNext ==
  \/ HandleRequest \/ DirectCall \/ EnrichResolves \/ EnrichCatches
  \/ CacheStore \/ Settle \/ Tick

SpecCache == CacheInit /\ [][CacheNext]_vars

(***************************************************************************)
(* The search run again: a later call with the same arguments gets the     *)
(* same graph object back from buildRouteGraph (line 124) and runs steps   *)
(* 2 to 5 on it with new locals (lines 279-283)                            *)
(***************************************************************************)
\* the most runs that follow the first
MaxReruns == 1

\* what a finished call leaves to compare later calls with
RunRecord ==
  [route |-> route, result |-> result, seed |-> seed,
   accidentTable |-> accidentTable, enrichment |-> enrichment]

\* the later call comes one clock unit on, while the cached graph is fresh
RunAgain ==
  /\ pc = "done"
  /\ Len(runs) < MaxReruns
  /\ CacheKey(start, end) \in DOMAIN graphCache
  /\ CacheFresh(now + 1, graphCache[CacheKey(start, end)].timestamp)
  /\ graphCache[CacheKey(start, end)].graph = graph
  /\ runs' = Append(runs, RunRecord)
  /\ now' = now + 1
  /\ pc' = "endpoints"
  /\ startNode' = Null /\ endNode' = Null
  /\ openSet' = << >> /\ closedSet' = {}
  /\ cameFrom' = EmptyMap /\ gScore' = EmptyMap /\ fScore' = EmptyMap
  /\ route' = Null /\ result' = Null
  /\ UNCHANGED << graph, callVars, buildVars, graphCache, calls, graphs, serviceVars, angleVars, pollVars >>

RepeatNext == BuildNext \/ RunAgain

SpecRepeat == BuildInit /\ [][RepeatNext]_vars

(***************************************************************************)
(* A later call after the cache entry has expired: the test of line 123    *)
(* fails and buildRouteGraph generates and enriches a new graph, drawing   *)
(* new Math.random values (lines 128-141)                                  *)
(***************************************************************************)
RunRebuilt ==
  /\ pc = "done"
  /\ Len(runs) < MaxReruns
  /\ CacheKey(start, end) \in DOMAIN graphCache
  /\ ~CacheFresh(now + CacheExpiry, graphCache[CacheKey(start, end)].timestamp)
  /\ runs' = Append(runs, RunRecord)
  /\ now' = now + CacheExpiry
  /\ pc' = "build"
  /\ graph' = << >>
  /\ seed' \in (0..MaxSeed) \ {seed}
  /\ accidents' = << >> /\ enrichment' = "none"
  /\ startNode' = Null /\ endNode' = Null
  /\ openSet' = << >> /\ closedSet' = {}
  /\ cameFrom' = EmptyMap /\ gScore' = EmptyMap /\ fScore' = EmptyMap
  /\ route' = Null /\ result' = Null
  /\ UNCHANGED << callVars, accidentTable, graphCache, calls, graphs,
                  serviceVars, angleVars, pollVars >>

RebuildNext == BuildNext \/ RunAgain \/ RunRebuilt

\* the first call, with a table of one incident of the greatest severity at
\* the first grid node
RebuildInit ==
  /\ graph = << >>
  /\ start \in GridStarts
  /\ end \in GridEnds(start)
  /\ preferences = EmptyMap
  /\ pc = "build"
  /\ startNode = Null /\ endNode = Null
  /\ openSet = << >> /\ closedSet = {}
  /\ cameFrom = EmptyMap /\ gScore = EmptyMap /\ fScore = EmptyMap
  /\ route = Null /\ result = Null
  /\ seed \in 0..MaxSeed
  /\ accidentTable = << [lat |-> start.lat - Buffer, lng |-> start.lng - Buffer,
                         severity |-> << 10 >>] >>
  /\ accidents = << >> /\ enrichment = "none"
  /\ now = 0 /\ graphCache = EmptyMap /\ calls = << >> /\ graphs = << >>
  /\ runs = << >>
  /\ angleIn = 0 /\ angleOut = << >>
  /\ events = << >> /\ polls = << >> /\ alerts = << >>
  /\ serviceTable = << >> /\ serviceQuery = << >> /\ serviceResult = << >>

SpecRebuild == RebuildInit /\ [][RebuildNext]_vars

(***************************************************************************)
(* findNearestService (routingService.js:385-416) on the EmergencyService  *)
(* table                                                                   *)
(***************************************************************************)
\* the most rows of the table
MaxServices == 3

\* the greatest limit asked for
MaxLimit == 2

\* two of the types of the ENUM
ServiceTypes == {"hospital", "shelter"}

\* how far north of the location a facility lies, in millidegrees: about
\* 1 km, 5 km and 10 km
ServiceOffsets == {9, 45, 90}

ServiceRows(location) ==
  [type : ServiceTypes, lat : {location.lat + d : d \in ServiceOffsets},
   lng : {location.lng}, isActive : BOOLEAN]

\* where: { type: serviceType } alone
Matches_Inactive(row, serviceType) == row.type = serviceType

\* where: { type: serviceType, isActive: true }
Matches(row, serviceType) == row.type = serviceType /\ row.isActive

\* ST_Distance of a row's location from the point of the query
ST_Distance(row, location) ==
  haversineDistance(location.lat, location.lng, row.lat, row.lng)

\* what findAll can resolve to: the ids of the matching rows in ascending
\* ST_Distance, rows at one distance in any order, cut at limit
OrderedSelections(table, location, serviceType, limit) ==
  LET matching == {i \in 1..Len(table) : Matches(table[i], serviceType)}
      n == Min2(limit, Cardinality(matching))
      d(i) == ST_Distance(table[i], location)
  IN {q \in [1..n -> matching] :
        /\ \A a, b \in 1..n : a < b => q[a] # q[b] /\ d(q[a]) <= d(q[b])
        /\ \A i \in matching \ {q[a] : a \in 1..n} : \A a \in 1..n : d(q[a]) <= d(i)}

\* lines 399-411: the row with distanceKm (in hundredths) and estimatedTimeMin
WithDistance(table, id, location) ==
  LET distance == haversineDistance(location.lat, location.lng,
                                    table[id].lat, table[id].lng)
  IN [id |-> id, type |-> table[id].type, lat |-> table[id].lat,
      lng |-> table[id].lng, isActive |-> table[id].isActive,
      distanceKm100 |-> RoundDiv(distance, 10),
      estimatedTimeMin |-> RoundDiv(2 * distance, 1000)]

ServicesInit ==
  /\ graph = << >>
  /\ start = ValidPoint /\ end = ValidPoint
  /\ preferences = EmptyMap
  /\ pc = "lookup"
  /\ startNode = Null /\ endNode = Null
  /\ openSet = << >> /\ closedSet = {}
  /\ cameFrom = EmptyMap /\ gScore = EmptyMap /\ fScore = EmptyMap
  /\ route = Null /\ result = Null
  /\ seed = 0 /\ accidentTable = << >> /\ accidents = << >> /\ enrichment = "none"
  /\ now = 0 /\ graphCache = EmptyMap /\ calls = << >> /\ graphs = << >>
  /\ runs = << >>
  /\ angleIn = 0 /\ angleOut = << >>
  /\ events = << >> /\ polls = << >> /\ alerts = << >>
  /\ serviceTable \in SeqsUpTo(ServiceRows(ValidPoint), MaxServices)
  /\ serviceQuery \in [location : {ValidPoint}, serviceType : ServiceTypes,
                       limit : 1..MaxLimit]
  /\ serviceResult = Null

\* findAll resolves: lines 399-411
ServicesFound ==
  /\ pc = "lookup"
  /\ \E q \in OrderedSelections(serviceTable, serviceQuery.location,
                                serviceQuery.serviceType, serviceQuery.limit) :
       serviceResult' = Some([k \in 1..Len(q) |->
                                WithDistance(serviceTable, q[k], serviceQuery.location)])
  /\ pc' = "done"
  /\ UNCHANGED << graph, callVars, searchVars, buildVars, cacheVars,
                  serviceTable, serviceQuery, angleVars, pollVars >>

\* findAll rejects: the catch of lines 412-415 returns []
ServicesQueryThrows ==
  /\ pc = "lookup"
  /\ serviceResult' = Some(<< >>)
  /\ pc' = "caught"
  /\ UNCHANGED << graph, callVars, searchVars, buildVars, cacheVars,
                  serviceTable, serviceQuery, angleVars, pollVars >>

ServicesNext == ServicesFound \/ ServicesQueryThrows

SpecServices == ServicesInit /\ [][ServicesNext]_vars

(***************************************************************************)
(* normalizeAngle (routingService.js:609-613) on its own                   *)
(***************************************************************************)
\* the greatest angle, in degrees, either way
MaxAngle == 540

AngleInit ==
  /\ graph = << >>
  /\ start = ValidPoint /\ end = ValidPoint
  /\ preferences = EmptyMap
  /\ pc = "angle"
  /\ startNode = Null /\ endNode = Null
  /\ openSet = << >> /\ closedSet = {}
  /\ cameFrom = EmptyMap /\ gScore = EmptyMap /\ fScore = EmptyMap
  /\ route = Null /\ result = Null
  /\ seed = 0 /\ accidentTable = << >> /\ accidents = << >> /\ enrichment = "none"
  /\ now = 0 /\ graphCache = EmptyMap /\ calls = << >> /\ graphs = << >>
  /\ runs = << >>
  /\ serviceTable = << >> /\ serviceQuery = << >> /\ serviceResult = << >>
  /\ angleIn \in -MaxAngle..MaxAngle
  /\ angleOut = Null
  /\ events = << >> /\ polls = << >> /\ alerts = << >>

NormalizeAngle ==
  /\ pc = "angle"
  /\ angleOut' = Some(normalizeAngle(angleIn))
  /\ pc' = "done"
  /\ UNCHANGED << graph, callVars, searchVars, buildVars, cacheVars, serviceVars, angleIn, pollVars >>

AngleNext == NormalizeAngle

SpecAngle == AngleInit /\ [][AngleNext]_vars

(***************************************************************************)
(* Steps 4 and 5 of calculateOptimalRoute (routingService.js:92-103) on a  *)
(* route aStarPathfinding hands over: generateInstructions,                *)
(* calculateRouteMetadata, convertToGeoJSON and the returned object        *)
(***************************************************************************)
\* the most nodes of a route
MaxPath == 4

\* nine nodes: node 0, and the nodes 1..8 about 11 km from it at the
\* bearings 0, 30, 90, 150, 180, -150, -90 and -30.  Their (lat, lng) in
\* millidegrees: 100 (cos b, sin b)
CompassOffsets ==
  << << 100, 0 >>, << 87, 50 >>, << 0, 100 >>, << -87, 50 >>,
     << -100, 0 >>, << -87, -50 >>, << 0, -100 >>, << 87, -50 >> >>

CompassIds == 0..Len(CompassOffsets)

CompassPosition(i) ==
  IF i = 0 THEN [lat |-> 0, lng |-> 0]
  ELSE [lat |-> CompassOffsets[i][1], lng |-> CompassOffsets[i][2]]

\* the accidentRisk of the edge i -> j, in fiftieths: values the enrichment
\* leaves, 0.1, 0.3, 0.4 and 1
CompassRisk(i, j) == << BaseAccidentRisk, 15, 20, 50 >>[((i + 3 * j) % 4) + 1]

\* the connection i -> j as generateGridGraph and the enrichment leave one
CompassConnection(i, j) ==
  [node |-> j,
   distance |-> haversineDistance(CompassPosition(i).lat, CompassPosition(i).lng,
                                  CompassPosition(j).lat, CompassPosition(j).lng),
   trafficLevel |-> (i + 2 * j) % 5,
   accidentRisk |-> CompassRisk(i, j)]

\* the nodes alone: the steps read a route's nodes and its connections
CompassGraph ==
  [k \in 1..(Len(CompassOffsets) + 1) |->
     GraphNode(k - 1, CompassPosition(k - 1).lat, CompassPosition(k - 1).lng, << >>)]

\* the sequences of n different node ids
RECURSIVE SimpleSeqs(_, _)
SimpleSeqs(S, n) ==
  IF n = 0 THEN {<< >>}
  ELSE UNION {{Append(q, x) : x \in S \ {q[i] : i \in 1..Len(q)}} :
                q \in SimpleSeqs(S, n - 1)}

\* what reconstructPath returns for a path over `nodes`
RouteOver(nodes) ==
  [nodes |-> nodes,
   connections |-> [i \in 1..(Len(nodes) - 1) |-> CompassConnection(nodes[i], nodes[i + 1])]]

CompassRoutes ==
  {RouteOver(nodes) : nodes \in UNION {SimpleSeqs(CompassIds, n) : n \in 1..MaxPath}}

RouteInit ==
  /\ graph = CompassGraph
  /\ start = CompassPosition(0) /\ end = CompassPosition(0)
  /\ preferences = EmptyMap
  /\ pc = "route"
  /\ startNode = Null /\ endNode = Null
  /\ openSet = << >> /\ closedSet = {}
  /\ cameFrom = EmptyMap /\ gScore = EmptyMap /\ fScore = EmptyMap
  /\ route \in {Some(r) : r \in CompassRoutes}
  /\ result = Null
  /\ seed = 0 /\ accidentTable = << >> /\ accidents = << >> /\ enrichment = "none"
  /\ now = 0 /\ graphCache = EmptyMap /\ calls = << >> /\ graphs = << >>
  /\ runs = << >>
  /\ angleIn = 0 /\ angleOut = << >>
  /\ events = << >> /\ polls = << >> /\ alerts = << >>
  /\ serviceTable = << >> /\ serviceQuery = << >> /\ serviceResult = << >>

\* lines 88-103 with a route that is not null
DescribeRoute ==
  /\ pc = "route"
  /\ result' = Some(RouteOutcome(graph, route))
  /\ pc' = "done"
  /\ UNCHANGED << graph, start, end, preferences, startNode, endNode, openSet,
                  closedSet, cameFrom, gScore, fScore, route >>
  /\ UNCHANGED << buildVars, cacheVars, serviceVars, angleVars, pollVars >>

RouteNext == DescribeRoute

SpecRoute == RouteInit /\ [][RouteNext]_vars

Next == ResolveEndpoints \/ AStarExpand \/ AStarReachGoal \/ AStarExhausted

Spec == Init /\ [][Next]_vars

(***************************************************************************)
(* Reachability and path costs, to state the claims about the search       *)
(***************************************************************************)
Targets(g, id) == {NodeOf(g, id).connections[i].node : i \in 1..Len(NodeOf(g, id).connections)}

RECURSIVE ReachableFrom(_, _)
ReachableFrom(g, S) ==
  LET T == S \cup UNION {Targets(g, id) : id \in S}
  IN IF T = S THEN S ELSE ReachableFrom(g, T)

Reachable(g, from, to) == to \in ReachableFrom(g, {from})

\* the walks of the graph from `from` that repeat no node, as sequences of
\* connections, each with the node it ends at
RECURSIVE SimpleWalks(_, _, _, _)
SimpleWalks(g, at, seen, sofar) ==
  {[connections |-> sofar, last |-> at]}
    \cup UNION {SimpleWalks(g, NodeOf(g, at).connections[i].node,
                            seen \cup {NodeOf(g, at).connections[i].node},
                            Append(sofar, NodeOf(g, at).connections[i])) :
                i \in {k \in 1..Len(NodeOf(g, at).connections) :
                         NodeOf(g, at).connections[k].node \notin seen}}

PathsBetween(g, from, to) ==
  {w.connections : w \in {x \in SimpleWalks(g, from, {from}, << >>) : x.last = to}}

RECURSIVE PathCost(_, _)
PathCost(connections, options) ==
  IF connections = << >> THEN 0
  ELSE calculateEdgeWeight(Head(connections), options)
         + PathCost(Tail(connections), options)

Finished == pc = "done"

EndpointsFound == startNode # Null /\ endNode # Null

Succeeded == Finished /\ result # Null /\ result[1].success

(***************************************************************************)
(* C1.  Every successful result's path is a walk of the searched graph:    *)
(* it starts at the start node, ends at the goal node, and connection i is *)
(* an outbound edge of path node i whose target is path node i + 1.        *)
(***************************************************************************)
C1_PathIsWalk ==
  Succeeded =>
    LET path == result[1].path
    IN /\ Len(path.nodes) >= 1
       /\ path.nodes[1] = startNode[1]
       /\ path.nodes[Len(path.nodes)] = endNode[1]
       /\ Len(path.connections) = Len(path.nodes) - 1
       /\ \A i \in 1..Len(path.connections) :
            /\ \E k \in 1..Len(NodeOf(graph, path.nodes[i]).connections) :
                 NodeOf(graph, path.nodes[i]).connections[k] = path.connections[i]
            /\ path.connections[i].node = path.nodes[i + 1]

\* a successful result on a graph whose start node has outbound edges
C1_Witness ==
  /\ Succeeded
  /\ NodeOf(graph, startNode[1]).connections # << >>

(***************************************************************************)
(* C2.  The search returns a path whenever the goal is reachable from the  *)
(* start by outbound edges, and null only when it is unreachable.          *)
(***************************************************************************)
C2_ReachableGoalIsFound ==
  (Finished /\ EndpointsFound) =>
    (Reachable(graph, startNode[1], endNode[1]) <=> route # Null)

(***************************************************************************)
(* C3.  On a graph with at least two distinct start-to-goal paths the      *)
(* search returns a path of minimum total weighted cost, for every         *)
(* preference setting.                                                     *)
(***************************************************************************)
C3_ReturnsCheapestPath ==
  (Finished /\ EndpointsFound
     /\ Cardinality(PathsBetween(graph, startNode[1], endNode[1])) >= 2) =>
    /\ route # Null
    /\ \A p \in PathsBetween(graph, startNode[1], endNode[1]) :
         PathCost(route[1].connections, OptionsOf(preferences))
           <= PathCost(p, OptionsOf(preferences))

(***************************************************************************)
(* C4.  When the goal cannot be reached from the start (the two lie in     *)
(* different components) the call resolves to exactly                      *)
(* {success: false, error: 'No valid route found'}.                        *)
(***************************************************************************)
C4_NoPathIsStructuredFailure ==
  (Finished /\ EndpointsFound /\ ~Reachable(graph, startNode[1], endNode[1])) =>
    result = Some(Failure("No valid route found"))

\* the goal is unreachable though the start node has edges to follow
C4_Witness ==
  /\ Finished /\ EndpointsFound
  /\ ~Reachable(graph, startNode[1], endNode[1])
  /\ NodeOf(graph, startNode[1]).connections # << >>
  /\ closedSet # {}
  /\ result = Some(Failure("No valid route found"))

(***************************************************************************)
(* C5.  When start and end map to the same nearest node the call succeeds  *)
(* with a path of one node and no edge, zero distance, zero time, and      *)
(* exactly one instruction, whose action is 'arrive'.                      *)
(***************************************************************************)
C5_TrivialRoute ==
  (Finished /\ EndpointsFound /\ startNode = endNode) =>
    /\ result[1].success
    /\ Len(result[1].path.nodes) = 1
    /\ result[1].path.connections = << >>
    /\ result[1].metadata.totalDistanceKm100 = 0
    /\ result[1].metadata.estimatedTimeMin = 0
    /\ Len(result[1].instructions) = 1
    /\ result[1].instructions[1].action = "arrive"

(***************************************************************************)
(* C6.  For every edge of a generated graph, before and after enrichment,  *)
(* and every combination of prioritizeSafety, avoidTraffic and             *)
(* emergencyType, calculateEdgeWeight is at least the edge's raw distance. *)
(***************************************************************************)
AllOptions ==
  [prioritizeSafety : BOOLEAN, avoidTraffic : BOOLEAN, maxDistance : {Null},
   emergencyType : {"general", "fire", "flood"}]

C6_WeightAtLeastDistance ==
  \A k \in 1..Len(graph) :
    \A n \in 1..Len(graph[k].connections) :
      \A o \in AllOptions :
        calculateEdgeWeight(graph[k].connections[n], o)
          >= WeightScale * graph[k].connections[n].distance

\* an enriched graph with an edge whose risk the enrichment raised and an
\* edge that carries traffic
C6_Witness ==
  /\ enrichment = "enriched"
  /\ \E k \in 1..Len(graph) :
       \E n \in 1..Len(graph[k].connections) :
         /\ graph[k].connections[n].accidentRisk > BaseAccidentRisk
         /\ graph[k].connections[n].distance > 0
  /\ \E k \in 1..Len(graph) :
       \E n \in 1..Len(graph[k].connections) :
         graph[k].connections[n].trafficLevel > 0

(***************************************************************************)
(* Claims about the cache and the calls around it                          *)
(***************************************************************************)
\* a coordinate outside latitude [-90, 90] or longitude [-180, 180]
OutOfRange(p) ==
  /\ p # Null
  /\ \/ ~IsFloatIn(p[1].lat, -90000, 90000)
     \/ ~IsFloatIn(p[1].lng, -180000, 180000)

\* grid generation is over and the enrichment is no longer under way
Complete(g) == g.enrichment # "pending"

\* the call has got its graph back from buildRouteGraph
PastBuild(c) == c.graph > 0 /\ c.pc \in {"search", "done"}

(***************************************************************************)
(* C7.  A request whose start or end coordinate is out of range is         *)
(* answered with an error without any graph being generated or cached for  *)
(* it, for the destination as for the user location.                       *)
(***************************************************************************)
C7_BadCoordinatesRejected ==
  /\ \A i \in 1..Len(calls) :
       OutOfRange(calls[i].start) \/ OutOfRange(calls[i].end)
         => /\ calls[i].graph = 0
            /\ calls[i].pc = "done"
            /\ calls[i].response = 400 \/ calls[i].outcome = "failure"
  /\ \A g \in 1..Len(graphs) :
       ~OutOfRange(Some(graphs[g].key[1])) /\ ~OutOfRange(Some(graphs[g].key[2]))

(***************************************************************************)
(* C8.  calculateOptimalRoute never rejects: every call resolves to a      *)
(* structured result, whatever its arguments.                              *)
(***************************************************************************)
C8_NeverRejects ==
  \A i \in 1..Len(calls) : calls[i].outcome # "rejected"

(***************************************************************************)
(* C9.  A graph is served from the cache only if its entry is younger than *)
(* cacheExpiry at the lookup; a call that finds an entry of that age or    *)
(* older builds and enriches a new graph, and once it has stored it the    *)
(* key holds another graph than the expired one, with a timestamp not      *)
(* before the lookup.                                                      *)
(***************************************************************************)
C9_NoStaleGraphServed ==
  \A i \in 1..Len(calls) :
    /\ calls[i].served
         => /\ calls[i].seen # Null
            /\ calls[i].lookupTime - calls[i].seen[1].timestamp < CacheExpiry
            /\ calls[i].graph = calls[i].seen[1].graph
    /\ (/\ calls[i].seen # Null
        /\ calls[i].lookupTime - calls[i].seen[1].timestamp >= CacheExpiry)
         => /\ ~calls[i].served
            /\ calls[i].graph > 0
            /\ calls[i].graph # calls[i].seen[1].graph
            /\ PastBuild(calls[i])
                 => /\ Complete(graphs[calls[i].graph])
                    /\ graphs[calls[i].graph].stored > 0
                    /\ \E k \in {graphs[calls[i].graph].key} :
                         /\ k \in DOMAIN graphCache
                         /\ graphCache[k].graph # calls[i].seen[1].graph
                         /\ graphCache[k].timestamp >= calls[i].lookupTime
                         /\ graphCache[k].timestamp > calls[i].seen[1].timestamp

\* a call found an expired entry, rebuilt, stored and finished
C9_Witness ==
  \E i \in 1..Len(calls) :
    /\ calls[i].seen # Null
    /\ calls[i].lookupTime - calls[i].seen[1].timestamp >= CacheExpiry
    /\ calls[i].pc = "done"
    /\ graphCache[graphs[calls[i].graph].key].graph = calls[i].graph

(***************************************************************************)
(* C10.  Under every interleaving of calls, the cache only ever holds, and *)
(* a call is only ever served, a graph whose generation and enrichment     *)
(* have finished; of the builds for one key, the last one written is the   *)
(* one the cache holds.                                                    *)
(***************************************************************************)
C10_CachedGraphsAreComplete ==
  /\ \A k \in DOMAIN graphCache :
       /\ graphCache[k].graph \in 1..Len(graphs)
       /\ graphs[graphCache[k].graph].key = k
       /\ Complete(graphs[graphCache[k].graph])
  /\ \A i \in 1..Len(calls) :
       PastBuild(calls[i]) => Complete(graphs[calls[i].graph])
  /\ \A g \in 1..Len(graphs) :
       graphs[g].stored > 0
         => /\ graphs[g].key \in DOMAIN graphCache
            /\ graphs[graphCache[graphs[g].key].graph].stored >= graphs[g].stored

\* two calls for one key built at the same time, both finished, and the
\* cache holds the graph written last
C10_Witness ==
  \E i, j \in 1..Len(calls) :
    /\ i < j
    /\ calls[i].pc = "done" /\ calls[j].pc = "done"
    /\ calls[i].graph > 0 /\ calls[j].graph > 0
    /\ calls[i].graph # calls[j].graph
    /\ graphs[calls[i].graph].key = graphs[calls[j].graph].key
    /\ calls[j].seen = Null
    /\ graphs[calls[i].graph].stored > graphs[calls[j].graph].stored
    /\ graphs[calls[j].graph].stored > 0
    /\ graphCache[graphs[calls[i].graph].key].graph = calls[i].graph

AsGenerated(connection) == [connection EXCEPT !.accidentRisk = BaseAccidentRisk]

\* with the rows `rows` returned by the query, no edge is left with a risk
\* below the one it has now
RiskNotBelow(rows) ==
  \A k \in 1..Len(graph) :
    \A n \in 1..Len(graph[k].connections) :
      EnrichedRisk(AsGenerated(graph[k].connections[n]),
                   NearbyAccidents(graph[k], NodeOf(graph, graph[k].connections[n].node),
                                   rows))
        >= graph[k].connections[n].accidentRisk

C12_RiskIsMonotone ==
  enrichment = "enriched" =>
    /\ \A row \in AccidentRows(start) : RiskNotBelow(Append(accidents, row))
    /\ \A i \in 1..Len(accidents) :
         \A sev \in (SeverityOf(accidents[i]) + 1)..10 :
           RiskNotBelow([accidents EXCEPT ![i].severity = << sev >>])

(***************************************************************************)
(* C13.  findNearestService returns at most limit facilities, all of the   *)
(* requested type, in ascending distance, and they are the closest ones    *)
(* of that type.                                                           *)
(***************************************************************************)
\* the rows of the table that count as facilities of the type
OfType(serviceType) ==
  {i \in 1..Len(serviceTable) : serviceTable[i].type = serviceType}

ActiveOfType(serviceType) ==
  {i \in OfType(serviceType) : serviceTable[i].isActive}

\* r holds the least(limit, |candidates|) closest of the candidates, in
\* ascending distance
ClosestOf(r, candidates) ==
  LET d(i) == haversineDistance(serviceQuery.location.lat, serviceQuery.location.lng,
                                serviceTable[i].lat, serviceTable[i].lng)
      ids == {r[k].id : k \in 1..Len(r)}
  IN /\ Len(r) = Min2(serviceQuery.limit, Cardinality(candidates))
     /\ ids \subseteq candidates
     /\ Cardinality(ids) = Len(r)
     /\ \A k \in 1..Len(r) :
          /\ r[k].type = serviceQuery.serviceType
          /\ r[k].distanceKm100 = RoundDiv(d(r[k].id), 10)
     /\ \A a, b \in 1..Len(r) : a < b => d(r[a].id) <= d(r[b].id)
     /\ \A i \in candidates \ ids : \A k \in 1..Len(r) : d(r[k].id) <= d(i)

GridAdjacent(a, b) ==
  \/ a.lat = b.lat /\ Abs(a.lng - b.lng) = GridSize
  \/ a.lng = b.lng /\ Abs(a.lat - b.lat) = GridSize

C14_GridIsConnected ==
  pc # "build" =>
    /\ \A k, j \in 1..Len(graph) :
         GridAdjacent(graph[k], graph[j]) => graph[j].id \in Targets(graph, graph[k].id)
    /\ \A k \in 1..Len(graph) :
         ReachableFrom(graph, {graph[k].id}) = NodeIds(graph)

(***************************************************************************)
(* C15.  normalizeAngle(x) ends with a result r, -180 < r <= 180, that     *)
(* differs from x by a multiple of 360.                                    *)
(***************************************************************************)
C15_NormalizedRange ==
  angleOut # Null =>
    /\ -180 < angleOut[1] /\ angleOut[1] <= 180
    /\ (angleOut[1] - angleIn) % 360 = 0

(***************************************************************************)
(* C16.  After an enrichment that did not fail, the accidentRisk of every  *)
(* edge is min(1, count x average severity / 50) over the incidents of the *)
(* table within 200 m of the edge's midpoint, an incident without severity *)
(* counting 5, and the baseline 0.1 when there is none.                    *)
(***************************************************************************)
\* the rows of the table within 200 m of the midpoint of the edge from a to b
IncidentsNear(a, b) ==
  {i \in 1..Len(accidentTable) :
     halfDistance(a.lat + b.lat, a.lng + b.lng,
                  2 * accidentTable[i].lat, 2 * accidentTable[i].lng) < 200}

RECURSIVE SeveritySum(_)
SeveritySum(S) ==
  IF S = {} THEN 0
  ELSE LET i == CHOOSE x \in S : TRUE
       IN (IF accidentTable[i].severity = Null THEN 5 ELSE accidentTable[i].severity[1])
            + SeveritySum(S \ {i})

\* count x average severity is the severity sum; risk is in fiftieths
ExpectedRisk(a, b) ==
  IF IncidentsNear(a, b) = {} THEN 5
  ELSE Min2(50, SeveritySum(IncidentsNear(a, b)))

Degraded ==
  \/ enrichment = "failed"
  \/ enrichment = "enriched" /\ accidentTable = << >>

C17_DegradedEnrichment ==
  Degraded =>
    /\ \A k \in 1..Len(graph) :
         \A n \in 1..Len(graph[k].connections) :
           graph[k].connections[n].accidentRisk = BaseAccidentRisk
    /\ CacheKey(start, end) \in DOMAIN graphCache
    /\ graphCache[CacheKey(start, end)].graph = graph
    /\ pc \in {"endpoints", "search", "done"}
    /\ pc = "done" => startNode # Null /\ endNode # Null /\ result # Null
    /\ result # Null =>
         \/ result[1].success
         \/ result[1].error = "No valid route found"

\* the query failed on a graph with edges, and the search has run to its end
C17_Witness ==
  /\ enrichment = "failed"
  /\ pc = "done"
  /\ \E k \in 1..Len(graph) : Len(graph[k].connections) > 0
  /\ closedSet # {}

(***************************************************************************)
(* C18.  In every graph buildRouteGraph produces, after generation and     *)
(* after enrichment with incident severities in 1..10, every edge leads to *)
(* a node other than its origin, has a distance above 0, a trafficLevel in *)
(* [0, 1] and an accidentRisk in [0, 1].                                   *)
(***************************************************************************)
\* the number of further incidents of the greatest severity by one edge
\* that takes the severity total past 50
ManyIncidents == 6

\* k incidents of severity 10 at the place of node a
IncidentsAt(a, k) == [i \in 1..k |-> [lat |-> a.lat, lng |-> a.lng, severity |-> << 10 >>]]

C18_EdgesAreWellFormed ==
  \A k \in 1..Len(graph) :
    \A n \in 1..Len(graph[k].connections) :
      \E c \in {graph[k].connections[n]} :
        /\ c.node # graph[k].id
        /\ c.node \in NodeIds(graph)
        /\ c.distance > 0
        /\ c.trafficLevel \in 0..10
        /\ c.accidentRisk \in 0..50
        /\ EnrichedRisk(AsGenerated(c),
                        NearbyAccidents(graph[k], NodeOf(graph, c.node),
                                        accidents \o IncidentsAt(graph[k], ManyIncidents)))
             \in 0..50

\* an enriched graph in which one edge has a raised risk and carries
\* traffic, and enough further incidents by it take the total past 50
C18_Witness ==
  /\ enrichment = "enriched"
  /\ \E k \in 1..Len(graph) :
       \E n \in 1..Len(graph[k].connections) :
         \E c \in {graph[k].connections[n]} :
           /\ c.accidentRisk > BaseAccidentRisk
           /\ c.trafficLevel > 0
           /\ TotalSeverity(NearbyAccidents(graph[k], NodeOf(graph, c.node),
                              accidents \o IncidentsAt(graph[k], ManyIncidents))) > 50

(***************************************************************************)
(* C19.  calculateEdgeWeight is distance x (1 + 2 x trafficLevel if        *)
(* avoidTraffic) x (1 + 3 x accidentRisk if prioritizeSafety) x            *)
(* (1 + accidentRisk if emergencyType is 'fire'), a multiplier left out    *)
(* when its condition is false; a call without preferences has             *)
(* prioritizeSafety and avoidTraffic true and no fire multiplier.          *)
(***************************************************************************)
\* one multiplier 1 + times x value / unit as the fraction over `unit`, or
\* 1 when it does not apply
Multiplier(applies, times, value, unit) ==
  IF applies THEN unit + times * value ELSE unit

\* trafficLevel is in tenths, accidentRisk in fiftieths; the weight is over
\* 10 x 50 x 50
ExpectedWeight(c, avoidTraffic, prioritizeSafety, fire) ==
  c.distance * Multiplier(avoidTraffic, 2, c.trafficLevel, 10)
             * Multiplier(prioritizeSafety, 3, c.accidentRisk, 50)
             * Multiplier(fire, 1, c.accidentRisk, 50)

\* whether the call asks for `name`: what it passes, true when it passes
\* nothing under that name
Asks(name) == name \notin DOMAIN preferences \/ preferences[name]

\* over the edges the search has relaxed: those of the expanded nodes
C19_EdgeWeightFormula ==
  \A id \in closedSet :
    \A n \in 1..Len(NodeOf(graph, id).connections) :
      \E c \in {NodeOf(graph, id).connections[n]} :
        calculateEdgeWeight(c, OptionsOf(preferences))
          = IF DOMAIN preferences = {}
            THEN ExpectedWeight(c, TRUE, TRUE, FALSE)
            ELSE ExpectedWeight(c, Asks("avoidTraffic"), Asks("prioritizeSafety"),
                                "emergencyType" \in DOMAIN preferences
                                   /\ preferences["emergencyType"] = "fire")

\* a call without preferences whose search has expanded a node with an edge
\* that carries traffic and a raised risk
C19_Witness ==
  /\ DOMAIN preferences = {}
  /\ closedSet # {}
  /\ \E id \in closedSet :
       \E n \in 1..Len(NodeOf(graph, id).connections) :
         /\ NodeOf(graph, id).connections[n].trafficLevel > 0
         /\ NodeOf(graph, id).connections[n].accidentRisk > BaseAccidentRisk

(***************************************************************************)
(* C20.  findNearestNode returns, for a graph with nodes, a node at the    *)
(* least great-circle distance from the point, the one with the lowest id  *)
(* among those at that distance; it returns null exactly when the graph    *)
(* has no node, and then the call reports 'Could not find valid route      *)
(* endpoints'.                                                             *)
(***************************************************************************)
DistanceTo(point, k) ==
  haversineDistance(point.lat, point.lng, graph[k].lat, graph[k].lng)

\* `found` is the first of the nodes nearest to `point`
FirstNearest(point, found) ==
  /\ found # Null
  /\ found[1] \in NodeIds(graph)
  /\ \E least \in {DistanceTo(point, found[1] + 1)} :
       \A k \in 1..Len(graph) :
         \E d \in {DistanceTo(point, k)} :
           /\ d >= least
           /\ d = least => graph[k].id >= found[1]

\* the nodes are compared where findNearestNode has just returned them;
\* no later step assigns startNode or endNode
C20_NearestNode ==
  pc # "endpoints" =>
    IF Len(graph) = 0
    THEN /\ startNode = Null /\ endNode = Null
         /\ pc = "done"
         /\ result = Some(Failure("Could not find valid route endpoints"))
    ELSE /\ startNode # Null /\ endNode # Null
         /\ (pc = "search" /\ closedSet = {}) =>
              FirstNearest(start, startNode) /\ FirstNearest(end, endNode)
         /\ result # Null =>
              \/ result[1].success
              \/ result[1].error # "Could not find valid route endpoints"

\* the end of the call lies as far from node 0 as from node 2, and node 0
\* was taken
C20_Witness ==
  /\ pc = "search"
  /\ closedSet = {}
  /\ Len(graph) >= 3
  /\ end = Midway
  /\ DistanceTo(end, 1) = DistanceTo(end, 3)
  /\ DistanceTo(end, 1) > 0
  /\ endNode = Some(0)

(***************************************************************************)
(* C21.  For every intermediate node of a path, with turnAngle =           *)
(* normalizeAngle(bearing out - bearing in), the instruction's action is   *)
(* 'straight' when |turnAngle| < 30, 'turn_right' for 30 <= turnAngle <    *)
(* 150, 'turn_left' for -150 < turnAngle <= -30 and 'u_turn' when          *)
(* |turnAngle| >= 150: the angles 30 and -30 are turns.                    *)
(***************************************************************************)
\* the turn angle at the intermediate node path.nodes[i + 1]
TurnAngleAt(path, i) ==
  LET prev == NodeOf(graph, path.nodes[i])
      curr == NodeOf(graph, path.nodes[i + 1])
      next == NodeOf(graph, path.nodes[i + 2])
  IN normalizeAngle(calculateBearing(curr.lat, curr.lng, next.lat, next.lng)
                      - calculateBearing(prev.lat, prev.lng, curr.lat, curr.lng))

ClaimedAction(turnAngle) ==
  IF Abs(turnAngle) < 30 THEN "straight"
  ELSE IF turnAngle >= 30 /\ turnAngle < 150 THEN "turn_right"
  ELSE IF turnAngle <= -30 /\ turnAngle > -150 THEN "turn_left"
  ELSE "u_turn"

Described == pc = "done" /\ result # Null /\ result[1].success

C21_TurnClassification ==
  Described =>
    \A i \in 1..(Len(route[1].nodes) - 2) :
      result[1].instructions[i + 1].action = ClaimedAction(TurnAngleAt(route[1], i))

(***************************************************************************)
(* C22.  For a path of n >= 2 nodes generateInstructions returns n         *)
(* instructions: a 'start' that refers to the second node's coordinate,    *)
(* one turn instruction per intermediate node in path order, and a last    *)
(* 'arrive'; the step numbers are 1, 2, ..., n.                            *)
(***************************************************************************)
TurnActions == {"straight", "turn_right", "turn_left", "u_turn"}

CoordinateOf(id) == [lat |-> NodeOf(graph, id).lat, lng |-> NodeOf(graph, id).lng]

C22_InstructionSequence ==
  (Described /\ Len(route[1].nodes) >= 2) =>
    \E n \in {Len(route[1].nodes)} :
      \E ins \in {result[1].instructions} :
        /\ Len(ins) = n
        /\ ins[1].action = "start"
        /\ ins[1].towards = CoordinateOf(route[1].nodes[2])
        /\ \A i \in 2..(n - 1) :
             /\ ins[i].action \in TurnActions
             /\ ins[i].coordinates = CoordinateOf(route[1].nodes[i])
        /\ ins[n].action = "arrive"
        /\ \A i \in 1..n : ins[i].step = i

\* a described path with two intermediate nodes
C22_Witness ==
  /\ Described
  /\ Len(route[1].nodes) >= 4
  /\ Len(result[1].instructions) >= 4
  /\ result[1].instructions[2].action # result[1].instructions[3].action

(***************************************************************************)
(* C23.  calculateRouteMetadata reports safetyScore = round((1 - m) x 100) *)
(* with m the greatest accidentRisk over the path's edges, 0 for a path    *)
(* without edges; safetyScore is an integer in 0..100 and safePassage is   *)
(* true exactly when safetyScore > 70.                                     *)
(***************************************************************************)
\* the greatest risk over the edges, in fiftieths
GreatestRisk(connections) ==
  LET risks == {connections[i].accidentRisk : i \in 1..Len(connections)} \cup {0}
  IN CHOOSE m \in risks : \A r \in risks : r <= m

C23_SafetyScore ==
  Described =>
    \E m \in {GreatestRisk(route[1].connections)} :
      \E md \in {result[1].metadata} :
        /\ md.safetyScore = RoundDiv((50 - m) * 100, 50)
        /\ md.safetyScore \in 0..100
        /\ md.criteria.safePassage <=> md.safetyScore > 70

\* a path of three edges whose greatest risk, 0.3, is not on its first edge:
\* the score is 70 and the passage is not safe
C23_Witness ==
  /\ Described
  /\ Len(route[1].connections) = 3
  /\ route[1].connections[1].accidentRisk < 15
  /\ result[1].metadata.safetyScore = 70
  /\ ~result[1].metadata.criteria.safePassage

(***************************************************************************)
(* C24.  Caching is transparent: a call with the start, end, preferences   *)
(* and incident data of an earlier call returns the earlier call's result  *)
(* (route, instructions and metadata, or the error), whether its graph     *)
(* came from graphCache or was built anew.                                 *)
(***************************************************************************)
\* what the caller sees of a result
Observable(res) ==
  IF res[1].success
  THEN << "route", res[1].route, res[1].instructions, res[1].metadata >>
  ELSE << "error", res[1].error >>

\* run k had the incident data of the present call
SameIncidentData(k) ==
  /\ runs[k].accidentTable = accidentTable
  /\ runs[k].enrichment = enrichment

PositiveWeights ==
  \A k \in 1..Len(graph) : \A n \in 1..Len(graph[k].connections) :
     calculateEdgeWeight(graph[k].connections[n], OptionsOf(preferences)) > 0

\* the passes the loop can still take: the queue entries, and one entry
\* for every edge out of a node that has not been closed
RECURSIVE OpenEdges(_)
OpenEdges(k) ==
  IF k = 0 THEN 0
  ELSE OpenEdges(k - 1)
         + (IF graph[k].id \in closedSet THEN 0 ELSE Len(graph[k].connections))

PassesLeft == Len(openSet) + OpenEdges(Len(graph))

(***************************************************************************)
(* C25.  The search loop of aStarPathfinding terminates on every finite    *)
(* graph with strictly positive edge weights: every pass of the loop       *)
(* either ends the search (the goal is dequeued, or the open set is        *)
(* empty) or lowers a natural number, the queue entries plus the edges out *)
(* of the nodes not yet closed, so that only finitely many passes dequeue. *)
(***************************************************************************)
C25_SearchTerminates ==
  [][(pc = "search" /\ PositiveWeights)
       => (PassesLeft' < PassesLeft \/ pc' = "done")]_vars

\* a search over a graph with edges out of the start node has ended with
\* the open set empty, after a pass that closed the start node
C25_Witness ==
  /\ Finished /\ EndpointsFound /\ PositiveWeights
  /\ closedSet # {} /\ openSet = << >> /\ route = Null
  /\ Len(NodeOf(graph, startNode[1]).connections) > 0

\* graph object g has been stored in graphCache
Published(g) == graphs[g].stored > 0

(***************************************************************************)
(* C26.  Once a graph has been stored in graphCache, no later operation    *)
(* changes it: no step of a search on it, of a later call that is served   *)
(* it from the cache, or of a later build for the same or another key      *)
(* changes the key, the bounds (which fix its nodes and edges) or the      *)
(* annotation state of its edges.                                          *)
(***************************************************************************)
C26_PublishedGraphIsFrozen ==
  [][\A g \in 1..Len(graphs) :
       Published(g) =>
         /\ graphs'[g].key = graphs[g].key
         /\ graphs'[g].bounds = graphs[g].bounds
         /\ graphs'[g].enrichment = graphs[g].enrichment]_vars

\* a graph was stored, the call that built it has run its search on it,
\* and a later call has built and stored another graph for the same key
C26_Witness ==
  \E g, h \in 1..Len(graphs) :
    /\ Published(g) /\ Published(h)
    /\ graphs[h].stored > graphs[g].stored
    /\ graphs[h].key = graphs[g].key
    /\ graphs[g].enrichment = "enriched"
    /\ \E i \in 1..Len(calls) : calls[i].graph = g /\ calls[i].pc = "done"

\* walking cameFrom back from node n leaves the map within k steps
RECURSIVE LeavesWithin(_, _)
LeavesWithin(n, k) ==
  IF n \notin DOMAIN cameFrom THEN TRUE
  ELSE IF k = 0 THEN FALSE
  ELSE LeavesWithin(cameFrom[n].node, k - 1)

Acyclic == \A n \in DOMAIN cameFrom : LeavesWithin(n, Cardinality(DOMAIN cameFrom))

NoNodeTwice(nodes) ==
  \A i, j \in 1..Len(nodes) : nodes[i] = nodes[j] => i = j

(***************************************************************************)
(* C27.  In aStarPathfinding the start node never acquires a predecessor   *)
(* and cameFrom has no cycle at any step of the search, so reconstructPath *)
(* terminates from every node; the path it returns begins with the start   *)
(* node and repeats no node.                                               *)
(***************************************************************************)
C27_PredecessorsFormATree ==
  (pc \in {"search", "done"} /\ EndpointsFound) =>
     /\ startNode[1] \notin DOMAIN cameFrom
     /\ Acyclic
     /\ route # Null =>
          /\ Len(route[1].nodes) > 0
          /\ route[1].nodes[1] = startNode[1]
          /\ NoNodeTwice(route[1].nodes)

\* a search from a node with edges has returned a path
C27_Witness ==
  /\ Finished /\ EndpointsFound /\ route # Null
  /\ Len(NodeOf(graph, startNode[1]).connections) > 0
  /\ Acyclic

(***************************************************************************)
(* The calculate-route edge function (supabase/functions/calculate-route/  *)
(* index.ts): aStar (lines 124-160) on symmetric graphs.  Scores are in    *)
(* tenths of a metre: conn.distance * (1 + conn.risk) with the risk 0.1 of *)
(* line 69 is 11 tenths of the distance.                                   *)
(***************************************************************************)
UndirectedPairs == {e \in Ids \X Ids : e[1] < e[2]}

\* node.connections.push({ node: neighbor, distance: dist, risk })
RiskConnection(i, j) ==
  [node |-> j,
   distance |-> haversineDistance(Position(i).lat, Position(i).lng,
                                  Position(j).lat, Position(j).lng),
   risk |-> 1]

\* the graph whose edges are those of U, each in both directions
SymmetricGraph(U) ==
  [k \in 1..MaxNodes |->
     LET targets == SortedSeq({j \in Ids : << k - 1, j >> \in U \/ << j, k - 1 >> \in U})
     IN GraphNode(k - 1, Position(k - 1).lat, Position(k - 1).lng,
          [n \in 1..Len(targets) |-> RiskConnection(k - 1, targets[n])])]

SymmetricGraphs == {SymmetricGraph(U) : U \in SUBSET UndirectedPairs}

\* the for loop of lines 146-157 from index i on; st holds open, cameFrom,
\* gScore and fScore
RECURSIVE aStar_Relax(_, _, _, _, _)
aStar_Relax(g, current, i, st, goal) ==
  IF i > Len(NodeOf(g, current).connections) THEN st
  ELSE
    LET conn == NodeOf(g, current).connections[i]
        neighbor == conn.node
        tentativeG == st.gScore[current] + conn.distance * (10 + conn.risk)
        h == 10 * haversineDistance(NodeOf(g, neighbor).lat, NodeOf(g, neighbor).lng,
                                    NodeOf(g, goal).lat, NodeOf(g, goal).lng)
    IN IF LessThan(tentativeG, GetOrInfinity(st.gScore, neighbor))
       THEN aStar_Relax(g, current, i + 1,
              [openSet |-> Enqueue(st.openSet, neighbor, tentativeG + h),
               cameFrom |-> (neighbor :> current) @@ st.cameFrom,
               gScore |-> (neighbor :> tentativeG) @@ st.gScore,
               fScore |-> (neighbor :> tentativeG + h) @@ st.fScore],
              goal)
       ELSE aStar_Relax(g, current, i + 1, st, goal)

\* the while loop of lines 138-141: the path, or Null when the loop never
\* ends.  A walk that has not left the map after as many steps as the map
\* has entries has come back to a node it left, and goes round for ever.
RECURSIVE aStar_Path(_, _, _, _)
aStar_Path(predecessors, curr, path, steps) ==
  IF curr \notin DOMAIN predecessors THEN Some(path)
  ELSE IF steps = 0 THEN Null
  ELSE aStar_Path(predecessors, predecessors[curr],
                  << predecessors[curr] >> \o path, steps - 1)

\* aStar(startNode, endNode) up to the while loop, lines 125-131
aStar_Init ==
  /\ graph \in SymmetricGraphs
  /\ \E s, e \in Ids :
       /\ start = Position(s) /\ end = Position(e)
       /\ startNode = Some(s) /\ endNode = Some(e)
       /\ gScore = (s :> 0)
       /\ openSet = Enqueue(<< >>, s, 0)
  /\ preferences = EmptyMap
  /\ pc = "astar"
  /\ closedSet = {}
  /\ cameFrom = EmptyMap /\ fScore = EmptyMap
  /\ route = Null /\ result = Null
  /\ seed = 0 /\ accidentTable = << >> /\ accidents = << >> /\ enrichment = "none"
  /\ now = 0 /\ graphCache = EmptyMap /\ calls = << >> /\ graphs = << >>
  /\ runs = << >>
  /\ angleIn = 0 /\ angleOut = << >>
  /\ events = << >> /\ polls = << >> /\ alerts = << >>
  /\ serviceTable = << >> /\ serviceQuery = << >> /\ serviceResult = << >>

aStar_Frame ==
  UNCHANGED << graph, callVars, startNode, endNode, closedSet, buildVars, cacheVars,
               serviceVars, angleVars, pollVars >>

\* one pass of the while loop of line 133 that dequeues a node other than `end`
aStar_Expand ==
  /\ pc = "astar"
  /\ openSet # << >>
  /\ DequeueItem(openSet) # endNode[1]
  /\ \E st \in {aStar_Relax(graph, DequeueItem(openSet), 1,
                  [openSet |-> DequeueRest(openSet), cameFrom |-> cameFrom,
                   gScore |-> gScore, fScore |-> fScore], endNode[1])} :
       /\ openSet' = st.openSet
       /\ cameFrom' = st.cameFrom
       /\ gScore' = st.gScore
       /\ fScore' = st.fScore
  /\ UNCHANGED << pc, route, result >>
  /\ aStar_Frame

\* the pass that dequeues `end`: lines 135-143, then the response of lines
\* 90-99; when the reconstruction never ends, nothing is returned
aStar_ReachGoal ==
  /\ pc = "astar"
  /\ openSet # << >>
  /\ DequeueItem(openSet) = endNode[1]
  /\ openSet' = DequeueRest(openSet)
  /\ \E path \in {aStar_Path(cameFrom, endNode[1], << endNode[1] >>,
                             Cardinality(DOMAIN cameFrom))} :
       IF path = Null
       THEN pc' = "reconstructing" /\ UNCHANGED << route, result >>
       ELSE /\ pc' = "done"
            /\ route' = path
            /\ result' = Some([success |-> TRUE, route |-> path[1]])
  /\ UNCHANGED << cameFrom, gScore, fScore >>
  /\ aStar_Frame

\* the open queue is empty: return null, the throw of line 88, the catch
aStar_Exhausted ==
  /\ pc = "astar"
  /\ openSet = << >>
  /\ pc' = "done"
  /\ result' = Some([success |-> FALSE, error |-> "No path found"])
  /\ UNCHANGED << route, openSet, cameFrom, gScore, fScore >>
  /\ aStar_Frame

aStar_Next == aStar_Expand \/ aStar_ReachGoal \/ aStar_Exhausted

SpecAStar == aStar_Init /\ [][aStar_Next]_vars

\* the least number of edges on a walk from node `from` to node `to`, or
\* Infinity when there is none
RECURSIVE EdgesBetween(_, _, _, _)
EdgesBetween(g, S, to, n) ==
  IF to \in S THEN n
  ELSE LET T == S \cup UNION {Targets(g, id) : id \in S}
       IN IF T = S THEN Infinity ELSE EdgesBetween(g, T, to, n + 1)

\* walking the predecessor map back from node n comes to the start node
\* and finds an entry for it
RECURSIVE CycleThroughStart(_, _)
CycleThroughStart(n, steps) ==
  /\ n \in DOMAIN cameFrom
  /\ \/ n = startNode[1]
     \/ steps > 0 /\ CycleThroughStart(cameFrom[n], steps - 1)

(***************************************************************************)
(* C28.  aStar of the calculate-route edge function: whenever the goal is  *)
(* reachable from the start over two or more edges of a symmetric graph,   *)
(* the predecessor map has no cycle through the start node, so that the    *)
(* reconstruction loop ends and a path from start to goal is returned.     *)
(***************************************************************************)
C28_ReconstructionTerminates ==
  (pc # "astar" /\ EdgesBetween(graph, {startNode[1]}, endNode[1], 0) >= 2) =>
     /\ ~CycleThroughStart(endNode[1], Cardinality(DOMAIN cameFrom))
     /\ pc = "done"
     /\ route # Null
     /\ route[1][1] = startNode[1]
     /\ route[1][Len(route[1])] = endNode[1]

\* node u has a connection to node v of distance d
HasEdge(u, v, d) ==
  \E n \in 1..Len(NodeOf(graph, u).connections) :
     /\ NodeOf(graph, u).connections[n].node = v
     /\ NodeOf(graph, u).connections[n].distance = d

(***************************************************************************)
(* C29.  Every graph built by generateGridGraph is symmetric: a node u has *)
(* a connection to a node v exactly when v has one to u, and the two carry *)
(* the same distance.                                                      *)
(***************************************************************************)
C29_GridIsSymmetric ==
  \A k \in 1..Len(graph) : \A n \in 1..Len(graph[k].connections) :
     HasEdge(graph[k].connections[n].node, graph[k].id,
             graph[k].connections[n].distance)

\* a built graph has two nodes connected in both directions, the two
\* connections with different traffic levels
C29_Witness ==
  \E k \in 1..Len(graph) : \E n \in 1..Len(graph[k].connections) :
     \E m \in 1..Len(NodeOf(graph, graph[k].connections[n].node).connections) :
        LET back == NodeOf(graph, graph[k].connections[n].node).connections[m]
        IN /\ back.node = graph[k].id
           /\ back.distance = graph[k].connections[n].distance
           /\ back.trafficLevel # graph[k].connections[n].trafficLevel

(***************************************************************************)
(* DisasterMonitor (disasterMonitor.js): the poll runs the cron tasks of   *)
(* start (lines 47-80) fire.  The callbacks call pollWeatherData and       *)
(* pollEarthquakeData without awaiting them, so a run that is still        *)
(* waiting for the database when the next firing comes overlaps with it.   *)
(* A run is followed from await to await: the feed request, then for each  *)
(* item findOne, create and the User.findAll of notifyAffectedUsers.       *)
(***************************************************************************)
\* the most poll runs started
MaxPolls == 2

\* what a feed holds: for USGS the id and the magnitude of a quake, for the
\* weather API the alerts of the locations checked, each with the
\* externalId sender_name + start and no magnitude
Quake(id, mag) == [externalId |-> id, mag |-> mag]

WeatherAlert(id) == [externalId |-> id, mag |-> Null]

Feeds(kind) ==
  IF kind = "earthquake"
  THEN {<< >>, << Quake("us1", 6) >>, << Quake("us2", 4), Quake("us1", 5) >>}
  ELSE {<< >>, << WeatherAlert("nws1") >>,
        << WeatherAlert("nws1"), WeatherAlert("nws1") >>}

\* pollEarthquakeData processes the quakes of magnitude >= 5.0 (line 181),
\* pollWeatherData every alert (lines 121-123)
Processed(kind, feed) ==
  SelectSeq(feed, LAMBDA item : kind = "weather" \/ item.mag >= 5)

\* the where clause of lines 203-206 and 289-292
ActiveEvents(externalId) ==
  {e \in 1..Len(events) : events[e].externalId = externalId /\ events[e].isActive}

\* the run goes on to its next item, or ends
NextItem(poll) ==
  IF poll.i < Len(poll.items)
  THEN [poll EXCEPT !.i = poll.i + 1, !.pc = "find"]
  ELSE [poll EXCEPT !.pc = "done"]

PollFrame ==
  UNCHANGED << graph, pc, callVars, searchVars, buildVars, cacheVars, serviceVars,
               angleVars >>

PollInit ==
  /\ graph = << >>
  /\ start = ValidPoint /\ end = ValidPoint
  /\ preferences = EmptyMap
  /\ pc = "idle"
  /\ startNode = Null /\ endNode = Null
  /\ openSet = << >> /\ closedSet = {}
  /\ cameFrom = EmptyMap /\ gScore = EmptyMap /\ fScore = EmptyMap
  /\ route = Null /\ result = Null
  /\ seed = 0 /\ accidentTable = << >> /\ accidents = << >> /\ enrichment = "none"
  /\ now = 0 /\ graphCache = EmptyMap /\ calls = << >> /\ graphs = << >>
  /\ runs = << >>
  /\ angleIn = 0 /\ angleOut = << >>
  /\ serviceTable = << >> /\ serviceQuery = << >> /\ serviceResult = << >>
  /\ events = << >> /\ polls = << >> /\ alerts = << >>

\* a cron task fires (lines 60-72): the poll starts and awaits its feed
CronFires ==
  /\ Len(polls) < MaxPolls
  /\ \E kind \in {"earthquake", "weather"} :
       polls' = Append(polls, [kind |-> kind, pc |-> "fetch", items |-> << >>, i |-> 0])
  /\ UNCHANGED << events, alerts >>
  /\ PollFrame

\* the feed request resolves (lines 172-176, 111-121)
FetchResolves ==
  /\ \E p \in 1..Len(polls) :
       /\ polls[p].pc = "fetch"
       /\ \E feed \in Feeds(polls[p].kind) :
            \E items \in {Processed(polls[p].kind, feed)} :
              polls' = [polls EXCEPT ![p] =
                          IF items = << >> THEN [@ EXCEPT !.pc = "done"]
                          ELSE [@ EXCEPT !.pc = "find", !.items = items, !.i = 1]]
  /\ UNCHANGED << events, alerts >>
  /\ PollFrame

\* the feed request rejects: the catch of lines 186-188, 126-128
FetchRejects ==
  /\ \E p \in 1..Len(polls) :
       /\ polls[p].pc = "fetch"
       /\ polls' = [polls EXCEPT ![p].pc = "done"]
  /\ UNCHANGED << events, alerts >>
  /\ PollFrame

\* DisasterEvent.findOne resolves (lines 288-297, 202-212)
FindResolves ==
  /\ \E p \in 1..Len(polls) :
       /\ polls[p].pc = "find"
       /\ polls' = [polls EXCEPT ![p] =
                      IF ActiveEvents(@.items[@.i].externalId) # {}
                      THEN NextItem(@)
                      ELSE [@ EXCEPT !.pc = "create"]]
  /\ UNCHANGED << events, alerts >>
  /\ PollFrame

\* DisasterEvent.create resolves (lines 300-321, 215-229)
CreateResolves ==
  /\ \E p \in 1..Len(polls) :
       /\ polls[p].pc = "create"
       /\ events' = Append(events, [id |-> Len(events) + 1,
                                    externalId |-> polls[p].items[polls[p].i].externalId,
                                    isActive |-> TRUE])
       /\ polls' = [polls EXCEPT ![p].pc = "notify"]
  /\ UNCHANGED alerts
  /\ PollFrame

\* the User.findAll of notifyAffectedUsers resolves: the emits of lines
\* 380-388, then the next item
NotifyResolves ==
  /\ \E p \in 1..Len(polls) :
       /\ polls[p].pc = "notify"
       /\ alerts' = Append(alerts, polls[p].items[polls[p].i].externalId)
       /\ polls' = [polls EXCEPT ![p] = NextItem(@)]
  /\ UNCHANGED events
  /\ PollFrame

\* a database call rejects: the catches of lines 329-331, 236-238 and
\* 390-392 log the error, and the run goes on to its next item
QueryRejects ==
  /\ \E p \in 1..Len(polls) :
       /\ polls[p].pc \in {"find", "create", "notify"}
       /\ polls' = [polls EXCEPT ![p] = NextItem(@)]
  /\ UNCHANGED << events, alerts >>
  /\ PollFrame

PollNext ==
  \/ CronFires \/ FetchResolves \/ FetchRejects \/ FindResolves
  \/ CreateResolves \/ NotifyResolves \/ QueryRejects

SpecPoll == PollInit /\ [][PollNext]_vars

(***************************************************************************)
(* C30.  Under any interleaving of overlapping poll runs at most one       *)
(* active DisasterEvent exists per externalId, and the users are notified  *)
(* at most once per externalId.                                            *)
(***************************************************************************)
C30_NoDuplicateEvents ==
  /\ \A e, f \in 1..Len(events) :
       (events[e].isActive /\ events[f].isActive
          /\ events[e].externalId = events[f].externalId) => e = f
  /\ \A a, b \in 1..Len(alerts) : alerts[a] = alerts[b] => a = b

====
